---- MODULE Spec2Model ----
(***************************************************************************)
(* A model of mx-bank-transaction-parser: the bank dispatcher              *)
(* (getParserForBank), the per-bank parsers (parse / parseRow), and their  *)
(* date and currency normalizers.                                          *)
(*                                                                         *)
(* JavaScript strings are TLA+ strings (Len, SubSeq and \o act on them).   *)
(* JavaScript numbers are integers counting hundredths (1234.56 is        *)
(* 123456); every amount the model feeds in has at most two decimals.      *)
(* undefined and null are the sentinels Undefined and Null; parseFloat     *)
(* returns [nan, v]. A call that raises returns a record with threw = TRUE. *)
(***************************************************************************)
EXTENDS Integers, Sequences, FiniteSets, TLC

VARIABLES
    pc,             \* "idle" before the call, "scan" inside a parse loop, "done" after
    op,             \* the operation called
    arg,            \* its argument
    ret,            \* what it returned (or Throw)
    lines,          \* SantanderParser.parse: the trimmed lines
    idx,            \* SantanderParser.parse: position of the for..of loop
    inDataSection,  \* SantanderParser.parse: local flag
    records         \* SantanderParser.parse: local array

vars == <<pc, op, arg, ret, lines, idx, inDataSection, records>>

-----------------------------------------------------------------------------
(* JavaScript values *)

Undefined == "<undefined>"
Null == "<null>"
Throw == [threw |-> TRUE, message |-> "TypeError"]
Ok(v) == [threw |-> FALSE, value |-> v]
None == "<none>"

-----------------------------------------------------------------------------
(* String primitives *)

At(s, i) == SubSeq(s, i, i)

Max(a, b) == IF a >= b THEN a ELSE b
Min(a, b) == IF a <= b THEN a ELSE b

\* String.prototype.startsWith
StartsWith(s, p) == Len(s) >= Len(p) /\ SubSeq(s, 1, Len(p)) = p

\* String.prototype.includes
Includes(s, p) == \E i \in 1..(Len(s) - Len(p) + 1) : SubSeq(s, i, i + Len(p) - 1) = p

\* index of the first occurrence of p in s at or after from, 0 when there is none
IndexOfFrom(s, p, from) ==
    LET hits == {i \in from..(Len(s) - Len(p) + 1) : SubSeq(s, i, i + Len(p) - 1) = p}
    IN IF hits = {} THEN 0 ELSE CHOOSE i \in hits : \A j \in hits : i <= j

WhiteSpace == {" ", "\t", "\r", "\n"}
Digits == {"0", "1", "2", "3", "4", "5", "6", "7", "8", "9"}
IsDigit(c) == c \in Digits

\* positions of s that hold no white space
InkPositions(s) == {i \in 1..Len(s) : At(s, i) \notin WhiteSpace}

TrimStart(s) ==
    IF InkPositions(s) = {} THEN ""
    ELSE SubSeq(s, CHOOSE i \in InkPositions(s) : \A j \in InkPositions(s) : i <= j, Len(s))

TrimEnd(s) ==
    IF InkPositions(s) = {} THEN ""
    ELSE SubSeq(s, 1, CHOOSE i \in InkPositions(s) : \A j \in InkPositions(s) : i >= j)

\* String.prototype.trim
Trim(s) == TrimEnd(TrimStart(s))

\* String.prototype.split(sep) for a non-empty separator: always at least one part
RECURSIVE Split(_, _)
Split(s, sep) ==
    LET i == IndexOfFrom(s, sep, 1)
    IN IF i = 0 THEN <<s>>
       ELSE <<SubSeq(s, 1, i - 1)>> \o Split(SubSeq(s, i + Len(sep), Len(s)), sep)

\* String.prototype.split(/\r?\n/)
RECURSIVE SplitLines(_)
SplitLines(s) ==
    LET i == IndexOfFrom(s, "\n", 1)
    IN IF i = 0 THEN <<s>>
       ELSE LET stop == IF i > 1 /\ At(s, i - 1) = "\r" THEN i - 2 ELSE i - 1
            IN <<SubSeq(s, 1, stop)>> \o SplitLines(SubSeq(s, i + 1, Len(s)))

\* Array.prototype.join
RECURSIVE Join(_, _)
Join(parts, sep) ==
    IF Len(parts) = 0 THEN ""
    ELSE IF Len(parts) = 1 THEN parts[1]
    ELSE parts[1] \o sep \o Join(Tail(parts), sep)

\* String.prototype.replace(/c/g, '') for the characters of a set
RECURSIVE RemoveChars(_, _)
RemoveChars(s, cs) ==
    IF Len(s) = 0 THEN ""
    ELSE IF Len(s) = 1 THEN (IF s \in cs THEN "" ELSE s)
    ELSE RemoveChars(SubSeq(s, 1, Len(s) \div 2), cs)
            \o RemoveChars(SubSeq(s, Len(s) \div 2 + 1, Len(s)), cs)

\* String.prototype.padStart(2, '0')
PadStart2(s) == IF Len(s) = 0 THEN "00" ELSE IF Len(s) = 1 THEN "0" \o s ELSE s

UpperLetters == <<"A", "B", "C", "D", "E", "F", "G", "H", "I", "J", "K", "L", "M",
                  "N", "O", "P", "Q", "R", "S", "T", "U", "V", "W", "X", "Y", "Z">>
LowerLetters == <<"a", "b", "c", "d", "e", "f", "g", "h", "i", "j", "k", "l", "m",
                  "n", "o", "p", "q", "r", "s", "t", "u", "v", "w", "x", "y", "z">>

LowerChar(c) ==
    IF \E k \in 1..26 : UpperLetters[k] = c
    THEN LowerLetters[CHOOSE k \in 1..26 : UpperLetters[k] = c] ELSE c
UpperChar(c) ==
    IF \E k \in 1..26 : LowerLetters[k] = c
    THEN UpperLetters[CHOOSE k \in 1..26 : LowerLetters[k] = c] ELSE c

\* String.prototype.toLowerCase
RECURSIVE ToLowerCase(_)
ToLowerCase(s) ==
    IF Len(s) = 0 THEN ""
    ELSE IF Len(s) = 1 THEN LowerChar(s)
    ELSE ToLowerCase(SubSeq(s, 1, Len(s) \div 2)) \o ToLowerCase(SubSeq(s, Len(s) \div 2 + 1, Len(s)))

RECURSIVE ToUpperCase(_)
ToUpperCase(s) ==
    IF Len(s) = 0 THEN ""
    ELSE IF Len(s) = 1 THEN UpperChar(s)
    ELSE ToUpperCase(SubSeq(s, 1, Len(s) \div 2)) \o ToUpperCase(SubSeq(s, Len(s) \div 2 + 1, Len(s)))

\* a template literal prints undefined as the word
Str(v) == IF v = Undefined THEN "undefined" ELSE v

\* the element of an array at a 1-based position, undefined beyond its end
Elem(seq, i) == IF i \in 1..Len(seq) THEN seq[i] ELSE Undefined

\* JavaScript truthiness of a string-or-undefined value
Truthy(v) == v # Undefined /\ v # Null /\ v # ""

-----------------------------------------------------------------------------
(* Numbers: parseFloat, in hundredths *)

DigitValue(c) == CHOOSE d \in 0..9 : At("0123456789", d + 1) = c

\* length of the run of digits of s that starts at position i
RECURSIVE DigitRun(_, _)
DigitRun(s, i) == IF i <= Len(s) /\ IsDigit(At(s, i)) THEN 1 + DigitRun(s, i + 1) ELSE 0

\* value of the digits s[i..i+n-1]
RECURSIVE DigitsValue(_, _, _)
DigitsValue(s, i, n) == IF n = 0 THEN 0 ELSE DigitsValue(s, i, n - 1) * 10 + DigitValue(At(s, i + n - 1))

\* parseFloat: leading white space, a sign, digits, a point and digits; NaN (nan) when
\* no digit is read. The hundredths (v) are the first two decimals.
ParseFloat(str) ==
    LET s == TrimStart(str)
        neg == Len(s) > 0 /\ At(s, 1) = "-"
        p == IF Len(s) > 0 /\ At(s, 1) \in {"-", "+"} THEN 2 ELSE 1
        n == DigitRun(s, p)
        dot == p + n <= Len(s) /\ At(s, p + n) = "."
        m == IF dot THEN DigitRun(s, p + n + 1) ELSE 0
        whole == DigitsValue(s, p, n)
        d1 == IF m >= 1 THEN DigitValue(At(s, p + n + 1)) ELSE 0
        d2 == IF m >= 2 THEN DigitValue(At(s, p + n + 2)) ELSE 0
        mag == whole * 100 + d1 * 10 + d2
    IN [nan |-> n = 0 /\ m = 0, v |-> IF neg THEN 0 - mag ELSE mag]

\* parseFloat(...) || 0
OrZero(x) == IF x.nan THEN 0 ELSE x.v

-----------------------------------------------------------------------------
(* The bank dispatcher *)

\* the bank keys of the test harness (fileTypes)
SupportedBankKeys ==
    {"afirme", "banbajio", "banorte", "banregio", "bbva", "hsbc", "santander", "scotiabank"}

UnsupportedBankError(bankName) ==
    [threw |-> TRUE, message |-> "No parser available for bank: " \o bankName]

\* a dispatcher that reports the normalised key instead of the identifier passed
getParserForBank_lowercasedMessage(bankName) ==
    LET key == ToLowerCase(bankName)
    IN CASE key = "afirme" -> Ok("AfirmeParser")
         [] key = "banbajio" -> Ok("BanBajioParser")
         [] key = "banorte" -> Ok("BanorteParser")
         [] key = "bbva" -> Ok("BbvaParser")
         [] key = "scotiabank" -> Ok("ScotiabankParser")
         [] OTHER -> UnsupportedBankError(key)

\* getParserForBank: switch (bankName.toLowerCase())
getParserForBank(bankName) ==
    LET key == ToLowerCase(bankName)
    IN CASE key = "afirme" -> Ok("AfirmeParser")
         [] key = "banbajio" -> Ok("BanBajioParser")
         [] key = "banorte" -> Ok("BanorteParser")
         [] key = "bbva" -> Ok("BbvaParser")
         [] key = "scotiabank" -> Ok("ScotiabankParser")
         [] OTHER -> UnsupportedBankError(bankName)

\* s with the letter at position i in upper case
UpperAt(s, i) == SubSeq(s, 1, i - 1) \o UpperChar(At(s, i)) \o SubSeq(s, i + 1, Len(s))

\* s with the letter at position i in lower case
LowerAt(s, i) == SubSeq(s, 1, i - 1) \o LowerChar(At(s, i)) \o SubSeq(s, i + 1, Len(s))

CaseVariants(key) ==
    {key, ToUpperCase(key)}
        \cup {UpperAt(key, i) : i \in 1..Len(key)}
        \cup {LowerAt(ToUpperCase(key), i) : i \in 1..Len(key)}

UnknownBankNames ==
    {"", "unknownbank", "UnknownBank", "UNKNOWNBANK", "bank", "Banamex", "citibanamex",
     "afirme ", " afirme", "afirme2", "bbv", "BBVA-MX", "scotia", "Scotia Bank", "hsbcmx",
     "banco", "Inbursa", "AZTECA", "santander.mx", "ban_regio"}

BankNamePool == UNION {CaseVariants(key) : key \in SupportedBankKeys} \cup UnknownBankNames

IdleVars == /\ lines = <<>> /\ idx = 0 /\ inDataSection = FALSE /\ records = <<>>
KeepScan == UNCHANGED <<lines, idx, inDataSection, records>>

InitIdle == pc = "idle" /\ op = None /\ arg = None /\ ret = None /\ IdleVars

CallGetParserForBank ==
    /\ pc = "idle"
    /\ \E bankName \in BankNamePool :
          /\ op' = "getParserForBank"
          /\ arg' = bankName
          /\ ret' = getParserForBank(bankName)
    /\ pc' = "done"
    /\ KeepScan

NextDispatch == CallGetParserForBank

SpecDispatch == InitIdle /\ [][NextDispatch]_vars

Dispatched == pc = "done" /\ op = "getParserForBank"

\* C4: an identifier whose lower-cased form is no supported bank key makes
\* getParserForBank throw an error whose message names the identifier as it was
\* passed, and no parser is returned.
C4_UnsupportedBankThrows ==
    (Dispatched /\ ToLowerCase(arg) \notin SupportedBankKeys) =>
        /\ ret.threw
        /\ "value" \notin DOMAIN ret
        /\ ret.message = "No parser available for bank: " \o arg
        /\ Includes(ret.message, arg)

\* an unsupported identifier in mixed case has been dispatched
C4_Witness ==
    /\ Dispatched
    /\ ToLowerCase(arg) \notin SupportedBankKeys
    /\ arg # ToLowerCase(arg)
    /\ ret.threw

ParserOfKey(key) ==
    CASE key = "afirme" -> "AfirmeParser"
      [] key = "banbajio" -> "BanBajioParser"
      [] key = "banorte" -> "BanorteParser"
      [] key = "banregio" -> "BanregioParser"
      [] key = "bbva" -> "BbvaParser"
      [] key = "hsbc" -> "HsbcParser"
      [] key = "santander" -> "SantanderParser"
      [] key = "scotiabank" -> "ScotiabankParser"

\* C5: each of the eight supported bank keys, in any letter casing, gets that
\* bank's parser from getParserForBank, which does not throw.
C5_EverySupportedKeyDispatches ==
    (Dispatched /\ ToLowerCase(arg) \in SupportedBankKeys) =>
        /\ ~ret.threw
        /\ ret.value = ParserOfKey(ToLowerCase(arg))

-----------------------------------------------------------------------------
(* Date normalizers *)

\* `${year}-${month.padStart(2, '0')}-${day.padStart(2, '0')}` after
\* const [day, month, year] = input.split(sep): reading padStart of an undefined
\* month raises a TypeError, an undefined year prints as "undefined"
SplitDate(input, sep) ==
    LET parts == Split(input, sep)
        day == Elem(parts, 1)
        month == Elem(parts, 2)
        year == Elem(parts, 3)
    IN IF month = Undefined THEN Throw
       ELSE Ok(Str(year) \o "-" \o PadStart2(month) \o "-" \o PadStart2(day))

\* AfirmeParser._formatDate: DD/MM/YY or DD/MM/YYYY
Afirme_formatDate(input) ==
    LET parts == Split(input, "/")
        day == Elem(parts, 1)
        month == Elem(parts, 2)
        year == Elem(parts, 3)
    IN IF year = Undefined THEN Throw    \* year.length of undefined
       ELSE LET fullYear == IF Len(year) = 2 THEN "20" \o year ELSE year
            IN Ok(fullYear \o "-" \o PadStart2(month) \o "-" \o PadStart2(day))

\* BanorteParser._formatDate: DD/MM/YYYY
Banorte_formatDate(input) == SplitDate(input, "/")

\* BanregioParser._formatDate of the first revision: DD/MM/YYYY, unguarded
BanregioV1_formatDate(input) == SplitDate(input, "/")

\* BanregioParser._formatDate: DD/MM/YYYY, guarded
Banregio_formatDate(input) ==
    IF ~Truthy(input) THEN Ok(input)
    ELSE LET parts == Split(input, "/")
             day == Elem(parts, 1)
             month == Elem(parts, 2)
             year == Elem(parts, 3)
         IN IF ~Truthy(day) \/ ~Truthy(month) \/ ~Truthy(year) THEN Ok(input)
            ELSE Ok(year \o "-" \o PadStart2(month) \o "-" \o PadStart2(day))

\* BbvaParser._formatDate: DD-MM-YYYY
Bbva_formatDate(input) == SplitDate(input, "-")

\* HsbcParser._formatDate without the padStart calls
Hsbc_formatDate_unpadded(input) ==
    IF ~Truthy(input) THEN Ok("")
    ELSE LET parts == Split(input, "/")
             day == Elem(parts, 1)
             month == Elem(parts, 2)
             year == Elem(parts, 3)
         IN IF ~Truthy(day) \/ ~Truthy(month) \/ ~Truthy(year) THEN Ok(input)
            ELSE Ok(year \o "-" \o month \o "-" \o day)

\* HsbcParser._formatDate: DD/MM/YYYY, guarded
Hsbc_formatDate(input) ==
    IF ~Truthy(input) THEN Ok("")
    ELSE LET parts == Split(input, "/")
             day == Elem(parts, 1)
             month == Elem(parts, 2)
             year == Elem(parts, 3)
         IN IF ~Truthy(day) \/ ~Truthy(month) \/ ~Truthy(year) THEN Ok(input)
            ELSE Ok(year \o "-" \o PadStart2(month) \o "-" \o PadStart2(day))

\* SantanderParser._formatDate: DDMMYYYY
Santander_formatDate(input) ==
    IF ~Truthy(input) \/ Len(input) # 8 THEN Ok(input)
    ELSE Ok(SubSeq(input, 5, 8) \o "-" \o SubSeq(input, 3, 4) \o "-" \o SubSeq(input, 1, 2))

\* input.replace(/\//g, '-')
RECURSIVE SlashesToDashes(_)
SlashesToDashes(s) ==
    IF Len(s) = 0 THEN ""
    ELSE (IF At(s, 1) = "/" THEN "-" ELSE At(s, 1)) \o SlashesToDashes(SubSeq(s, 2, Len(s)))

\* ScotiabankParser._formatDate: YYYY/MM/DD
Scotiabank_formatDate(input) ==
    IF ~Truthy(input) \/ Len(input) # 10 THEN Ok(input) ELSE Ok(SlashesToDashes(input))

MonthNames == <<"Jan", "Feb", "Mar", "Apr", "May", "Jun", "Jul", "Aug", "Sep", "Oct", "Nov", "Dec">>
MonthNumbers == <<"01", "02", "03", "04", "05", "06", "07", "08", "09", "10", "11", "12">>

\* months[name] || '01'
MonthOrJanuary(name) ==
    IF \E k \in 1..12 : MonthNames[k] = name
    THEN MonthNumbers[CHOOSE k \in 1..12 : MonthNames[k] = name] ELSE "01"

\* BanBajioParser._formatDate: DD-MMM-YYYY
BanBajio_formatDate(input) ==
    LET parts == Split(input, "-")
    IN IF Len(parts) = 3
       THEN Ok(parts[3] \o "-" \o MonthOrJanuary(parts[2]) \o "-" \o PadStart2(parts[1]))
       ELSE Ok(input)

DatePool ==
    {"", "01/03/24", "1/3/2024", "31/12/2024", "01/03/2024", "9/12/2024", "2024/03/01",
     "010324", "01032024", "31122024", "3112202",
     "01/03", "01/", "//", "/03/2024", "01//2024", "01/03/", "1/2/3/4", "2024/12/31",
     "2024-12-31", "01-03-2024", "1-3-2024", "01-03", "--", "1-2-3-4", "28-Nov-2024",
     "5-Dic-2024", "28-Nov", "abc"}

FormatDateOps ==
    {"AfirmeParser._formatDate", "BanorteParser._formatDate", "BanregioParser._formatDate",
     "BanregioParser(v1)._formatDate", "BbvaParser._formatDate", "HsbcParser._formatDate",
     "SantanderParser._formatDate", "ScotiabankParser._formatDate", "BanBajioParser._formatDate"}

FormatDate(name, input) ==
    CASE name = "AfirmeParser._formatDate" -> Afirme_formatDate(input)
      [] name = "BanorteParser._formatDate" -> Banorte_formatDate(input)
      [] name = "BanregioParser._formatDate" -> Banregio_formatDate(input)
      [] name = "BanregioParser(v1)._formatDate" -> BanregioV1_formatDate(input)
      [] name = "BbvaParser._formatDate" -> Bbva_formatDate(input)
      [] name = "HsbcParser._formatDate" -> Hsbc_formatDate(input)
      [] name = "SantanderParser._formatDate" -> Santander_formatDate(input)
      [] name = "ScotiabankParser._formatDate" -> Scotiabank_formatDate(input)
      [] name = "BanBajioParser._formatDate" -> BanBajio_formatDate(input)

CallFormatDate ==
    /\ pc = "idle"
    /\ \E name \in FormatDateOps, input \in DatePool :
          /\ op' = name
          /\ arg' = input
          /\ ret' = FormatDate(name, input)
    /\ pc' = "done"
    /\ KeepScan

NextDate == CallFormatDate

SpecDate == InitIdle /\ [][NextDate]_vars

\* the separator of the bank's date format
DateSeparator(name) ==
    IF name \in {"BbvaParser._formatDate", "BanBajioParser._formatDate"} THEN "-" ELSE "/"

\* the input does not split into three non-empty parts
MalformedDate(input, sep) ==
    LET parts == Split(input, sep)
    IN Len(parts) # 3 \/ \E i \in 1..Len(parts) : parts[i] = ""

\* C7: each bank's _formatDate, given an input that does not split into the
\* expected three parts by the bank's separator, returns the input unchanged and
\* does not throw.
C7_MalformedDateUnchanged ==
    (/\ pc = "done"
     /\ op \in {"AfirmeParser._formatDate", "BanorteParser._formatDate",
                "BanregioParser._formatDate", "BbvaParser._formatDate",
                "HsbcParser._formatDate", "BanBajioParser._formatDate"}
     /\ MalformedDate(arg, DateSeparator(op)))
        => (~ret.threw /\ ret.value = arg)

-----------------------------------------------------------------------------
(* The Transaction model class *)

\* a bank field that holds a bare text (bank: 'Afirme') and not an identity
\* object: a record of its own shape, so that the two kinds can be told apart
BankLabel(text) == [label |-> text]

\* a constructor parameter with a default: the default applies when the caller
\* passes nothing or undefined
Param(params, k, default) ==
    IF k \in DOMAIN params THEN (IF params[k] = Undefined THEN default ELSE params[k]) ELSE default

\* a constructor parameter without a default
Field(params, k) == IF k \in DOMAIN params THEN params[k] ELSE Undefined

\* new Transaction(params): the constructor destructures these twelve names and
\* keeps nothing else of params
Transaction(params) ==
    [date |-> Field(params, "date"),
     hour |-> Param(params, "hour", Null),
     type |-> Field(params, "type"),
     amount |-> Field(params, "amount"),
     balance |-> Field(params, "balance"),
     description |-> Field(params, "description"),
     reference |-> Field(params, "reference"),
     bank |-> Field(params, "bank"),
     accountNumber |-> Param(params, "accountNumber", Null),
     beneficiary |-> Param(params, "beneficiary", Null),
     trackingKey |-> Param(params, "trackingKey", Null),
     extra |-> Param(params, "extra", Null)]

\* what parseRow returns: a Transaction, null, or an exception
RowNull == [threw |-> FALSE, null |-> TRUE]
RowTx(tx) == [threw |-> FALSE, null |-> FALSE, tx |-> tx]
RowThrow == [threw |-> TRUE, null |-> FALSE]
IsTx(r) == ~r.threw /\ ~r.null

\* a string field of a parsed record, undefined when the record has no such key
StrOf(record, k) == IF k \in DOMAIN record THEN record[k] ELSE Undefined

\* record[k] || 0 for a column that the cast callback turned into a number
NumOf(record, k) == IF k \in DOMAIN record THEN record[k] ELSE 0

\* s || fallback
OrElse(s, fallback) == IF Truthy(s) THEN s ELSE fallback

\* JSON.stringify of a string: quotes and backslashes escaped
RECURSIVE JsonEscape(_)
JsonEscape(s) ==
    IF Len(s) = 0 THEN ""
    ELSE IF Len(s) = 1 THEN (IF s \in {"\"", "\\"} THEN "\\" \o s ELSE s)
    ELSE JsonEscape(SubSeq(s, 1, Len(s) \div 2)) \o JsonEscape(SubSeq(s, Len(s) \div 2 + 1, Len(s)))

\* JSON.stringify of an object whose values are strings, keys in insertion order
RECURSIVE JsonMembers(_, _)
JsonMembers(record, keys) ==
    IF Len(keys) = 0 THEN ""
    ELSE "\"" \o keys[1] \o "\":\"" \o JsonEscape(record[keys[1]]) \o "\""
            \o (IF Len(keys) > 1 THEN "," ELSE "") \o JsonMembers(record, Tail(keys))

JsonStringify(record, keys) == "{" \o JsonMembers(record, keys) \o "}"

-----------------------------------------------------------------------------
(* SantanderParser *)

SantanderHeader == "Fecha,Hora,Sucursal,Descripcion,Importe Cargo,Importe Abono,Saldo,Referencia,Concepto"

SantanderBank == [id |-> "014", code |-> "40014", name |-> "SANTANDER"]

SantanderKeys == <<"date", "time", "branch", "description", "debit", "credit", "balance",
                   "reference", "concept">>

\* SantanderParser._parseCurrency
Santander_parseCurrency(str) ==
    IF ~Truthy(str) \/ Trim(str) = "" \/ str = "0" THEN 0
    ELSE OrZero(ParseFloat(Trim(RemoveChars(str, {"\"", "'", ","}))))

\* SantanderParser._isDataLine: /^'\d{8}',/
Santander_isDataLine(line) ==
    /\ Len(line) >= 11
    /\ At(line, 1) = "'"
    /\ \A k \in 2..9 : IsDigit(At(line, k))
    /\ At(line, 10) = "'"
    /\ At(line, 11) = ","

\* the state of the for loop of _parseDataLine before its first character
ScanStart == [columns |-> <<>>, current |-> "", inQuotes |-> FALSE, quoteChar |-> ""]

\* a loop body that ends a column at every comma, quoted or not
Santander_scanChar_splitsInQuotes(st, char) ==
    IF char \in {"'", "\""} /\ ~st.inQuotes
    THEN [st EXCEPT !.inQuotes = TRUE, !.quoteChar = char]
    ELSE IF char = st.quoteChar /\ st.inQuotes
    THEN [st EXCEPT !.inQuotes = FALSE, !.quoteChar = ""]
    ELSE IF char = ","
    THEN [st EXCEPT !.columns = Append(st.columns, Trim(st.current)), !.current = ""]
    ELSE [st EXCEPT !.current = st.current \o char]

\* one turn of the for loop of _parseDataLine on the character char
Santander_scanChar(st, char) ==
    IF char \in {"'", "\""} /\ ~st.inQuotes
    THEN [st EXCEPT !.inQuotes = TRUE, !.quoteChar = char]
    ELSE IF char = st.quoteChar /\ st.inQuotes
    THEN [st EXCEPT !.inQuotes = FALSE, !.quoteChar = ""]
    ELSE IF char = "," /\ ~st.inQuotes
    THEN [st EXCEPT !.columns = Append(st.columns, Trim(st.current)), !.current = ""]
    ELSE [st EXCEPT !.current = st.current \o char]

\* the for loop of _parseDataLine over the characters lo..hi of line, from the
\* state st. The turns are taken left to right; the range is halved, and the
\* state after the left half is computed (its inQuotes read) before the right
\* half is entered, which keeps the evaluation shallow on long lines.
RECURSIVE Santander_scan(_, _, _, _)
Santander_scan(line, lo, hi, st) ==
    IF lo > hi THEN st
    ELSE IF lo = hi THEN Santander_scanChar(st, At(line, lo))
    ELSE LET mid == (lo + hi) \div 2
             left == Santander_scan(line, lo, mid, st)
         IN IF left.inQuotes \in BOOLEAN
            THEN Santander_scan(line, mid + 1, hi, left)
            ELSE left

\* the columns array of _parseDataLine after its loop and the push of a last,
\* non-empty token
Santander_columns(line) ==
    LET end == Santander_scan(line, 1, Len(line), ScanStart)
    IN IF end.current # "" THEN Append(end.columns, Trim(end.current)) ELSE end.columns

\* null where a record is expected
NullRecord == [null |-> TRUE]

\* SantanderParser._parseDataLine: the record, or null
Santander_parseDataLine(line) ==
    LET columns == Santander_columns(line)
    IN IF Len(columns) # 9 THEN NullRecord
       ELSE [date |-> RemoveChars(columns[1], {"'"}),
             time |-> RemoveChars(columns[2], {"'"}),
             branch |-> RemoveChars(columns[3], {"'"}),
             description |-> RemoveChars(columns[4], {"'"}),
             debit |-> columns[5],
             credit |-> columns[6],
             balance |-> columns[7],
             reference |-> columns[8],
             concept |-> columns[9]]

\* the first lines that _extractAccountInfo reads
SantanderInfoLines == 10

\* line.split('Cuenta:')[1]?.split(',')[0]?.trim() || ''
Santander_accountOfLine(line) == Trim(Split(Split(line, "Cuenta:")[2], ",")[1])

\* SantanderParser._extractAccountInfo(lines).accountNumber: the last of the first
\* ten lines that holds 'Cuenta:' decides (parse reads no other field of the result)
RECURSIVE Santander_accountNumber(_, _, _)
Santander_accountNumber(ls, i, found) ==
    IF i > Min(Len(ls), SantanderInfoLines) THEN found
    ELSE Santander_accountNumber(ls, i + 1,
            IF Includes(ls[i], "Cuenta:") THEN Santander_accountOfLine(ls[i]) ELSE found)

\* a parseRow that lets the debit column decide
Santander_parseRow_debitFirst(record, accountNumber) ==
    IF ~Truthy(record.date) \/ ~Truthy(record.description) THEN RowNull
    ELSE LET debit == Santander_parseCurrency(record.debit)
             credit == Santander_parseCurrency(record.credit)
         IN RowTx(Transaction(
                [date |-> Santander_formatDate(record.date).value,
                 type |-> IF debit # 0 THEN "debit" ELSE "credit",
                 amount |-> IF debit # 0 THEN 0 - debit ELSE credit,
                 balance |-> Santander_parseCurrency(record.balance),
                 reference |-> OrElse(record.reference, ""),
                 accountNumber |-> accountNumber,
                 description |-> Trim(record.description),
                 bank |-> SantanderBank]))

\* SantanderParser.parseRow
Santander_parseRow(record, accountNumber) ==
    IF ~Truthy(record.date) \/ ~Truthy(record.description) THEN RowNull
    ELSE LET date == Santander_formatDate(record.date).value
             debit == Santander_parseCurrency(record.debit)
             credit == Santander_parseCurrency(record.credit)
             balance == Santander_parseCurrency(record.balance)
             amount == IF credit # 0 THEN credit ELSE 0 - debit
             description ==
                 IF /\ Truthy(record.concept)
                    /\ Trim(record.concept) # ""
                    /\ ~Includes(record.concept, "MEDICMAS REF 0000000")
                    /\ ~Includes(record.concept, "REF 0000000")
                 THEN Trim(record.concept)
                 ELSE Trim(record.description)
         IN RowTx(Transaction(
                [date |-> date,
                 time |-> OrElse(record.time, Null),
                 type |-> IF credit # 0 THEN "credit" ELSE "debit",
                 amount |-> amount,
                 balance |-> balance,
                 reference |-> OrElse(record.reference, ""),
                 accountNumber |-> accountNumber,
                 description |-> description,
                 bank |-> SantanderBank,
                 raw |-> JsonStringify(record, SantanderKeys)]))

\* a map that hands the transactions back last row first
RECURSIVE Santander_mapRows_lastFirst(_, _)
Santander_mapRows_lastFirst(recs, accountNumber) ==
    IF Len(recs) = 0 THEN <<>>
    ELSE LET row == Santander_parseRow(recs[1], accountNumber)
         IN Santander_mapRows_lastFirst(Tail(recs), accountNumber)
                \o (IF IsTx(row) THEN <<row.tx>> ELSE <<>>)

\* records.map(record => this.parseRow(record, accountNumber)).filter(Boolean)
RECURSIVE Santander_mapRows(_, _)
Santander_mapRows(recs, accountNumber) ==
    IF Len(recs) = 0 THEN <<>>
    ELSE LET row == Santander_parseRow(recs[1], accountNumber)
         IN (IF IsTx(row) THEN <<row.tx>> ELSE <<>>) \o Santander_mapRows(Tail(recs), accountNumber)

\* fileContent.split(/\r?\n/).map(line => line.trim())
TrimmedLines(fileContent) ==
    LET raw == SplitLines(fileContent) IN [k \in 1..Len(raw) |-> Trim(raw[k])]

MaxLines == 3

LineEndings == {"\n", "\r\n"}

\* every document of at most n lines drawn from a pool
RECURSIVE DocsOf(_, _)
DocsOf(pool, n) ==
    IF n = 0 THEN {<<>>}
    ELSE LET shorter == DocsOf(pool, n - 1)
         IN shorter \cup {Append(d, l) : d \in {x \in shorter : Len(x) = n - 1}, l \in pool}

SantanderLinePool ==
    {SantanderHeader,
     "'01032024','10:15','0001','DEPOSITO','0.00','500.00','1,500.00','REF1','NOMINA'",
     " '02032024','11:00','0002','RETIRO EN CAJERO',\"1,250.50\",0.00,249.50,REF2,REF 0000000 ",
     "'03032024','12:00','0003','COMISION',10.00,0.00,239.50,REF3,",
     "Cuenta: 65-50123456-7, Contrato: 80012345",
     ""}

SantanderDocs == DocsOf(SantanderLinePool, MaxLines) \ {<<>>}

\* parse(fileContent): up to the for loop
SantanderParseStart ==
    /\ pc = "idle"
    /\ \E doc \in SantanderDocs, nl \in LineEndings :
          /\ arg' = Join(doc, nl)
          /\ lines' = TrimmedLines(Join(doc, nl))
    /\ op' = "SantanderParser.parse"
    /\ ret' = None
    /\ idx' = 1
    /\ inDataSection' = FALSE
    /\ records' = <<>>
    /\ pc' = "scan"

\* a loop body that goes on after a line that is no data line
SantanderParseLine_noBreak ==
    /\ pc = "scan"
    /\ idx <= Len(lines)
    /\ LET line == lines[idx]
       IN IF StartsWith(line, SantanderHeader)
          THEN inDataSection' = TRUE /\ records' = records
          ELSE IF inDataSection /\ line # "" /\ Santander_isDataLine(line)
          THEN /\ records' = (IF Santander_parseDataLine(line) # NullRecord
                              THEN Append(records, Santander_parseDataLine(line)) ELSE records)
               /\ UNCHANGED inDataSection
          ELSE UNCHANGED <<inDataSection, records>>
    /\ idx' = idx + 1
    /\ pc' = "scan"
    /\ UNCHANGED <<op, arg, ret, lines>>

\* a loop body that leaves the data section at a data line without nine columns
SantanderParseLine_breaksAtNull ==
    /\ pc = "scan"
    /\ idx <= Len(lines)
    /\ LET line == lines[idx]
       IN IF StartsWith(line, SantanderHeader)
          THEN /\ inDataSection' = TRUE
               /\ idx' = idx + 1
               /\ pc' = "scan"
               /\ UNCHANGED records
          ELSE IF inDataSection /\ (line = "" \/ ~Santander_isDataLine(line)
                                       \/ Santander_parseDataLine(line) = NullRecord)
          THEN /\ pc' = "return"
               /\ UNCHANGED <<idx, inDataSection, records>>
          ELSE IF inDataSection
          THEN /\ records' = Append(records, Santander_parseDataLine(line))
               /\ idx' = idx + 1
               /\ pc' = "scan"
               /\ UNCHANGED inDataSection
          ELSE /\ idx' = idx + 1
               /\ pc' = "scan"
               /\ UNCHANGED <<inDataSection, records>>
    /\ UNCHANGED <<op, arg, ret, lines>>

\* one turn of the for loop of parse
SantanderParseLine ==
    /\ pc = "scan"
    /\ idx <= Len(lines)
    /\ LET line == lines[idx]
       IN IF StartsWith(line, SantanderHeader)
          THEN \* continue
               /\ inDataSection' = TRUE
               /\ idx' = idx + 1
               /\ pc' = "scan"
               /\ UNCHANGED records
          ELSE IF inDataSection /\ (line = "" \/ ~Santander_isDataLine(line))
          THEN \* break
               /\ pc' = "return"
               /\ UNCHANGED <<idx, inDataSection, records>>
          ELSE IF inDataSection
          THEN /\ records' = (IF Santander_parseDataLine(line) # NullRecord
                              THEN Append(records, Santander_parseDataLine(line)) ELSE records)
               /\ idx' = idx + 1
               /\ pc' = "scan"
               /\ UNCHANGED inDataSection
          ELSE /\ idx' = idx + 1
               /\ pc' = "scan"
               /\ UNCHANGED <<inDataSection, records>>
    /\ UNCHANGED <<op, arg, ret, lines>>

\* return records.map(...).filter(Boolean), after the loop ended or broke
SantanderParseReturn ==
    /\ \/ pc = "return"
       \/ pc = "scan" /\ idx > Len(lines)
    /\ ret' = Ok(Santander_mapRows(records, Santander_accountNumber(lines, 1, "")))
    /\ pc' = "done"
    /\ UNCHANGED <<op, arg, lines, idx, inDataSection, records>>

MaxScanLen == 6

ScanAlphabet == {"a", ",", "'", "\""}

\* every string of at most n characters of the alphabet
RECURSIVE StringsOf(_, _)
StringsOf(alphabet, n) ==
    IF n = 0 THEN {""}
    ELSE LET shorter == StringsOf(alphabet, n - 1)
         IN shorter \cup {s \o c : s \in {x \in shorter : Len(x) = n - 1}, c \in alphabet}

\* the for loop of _parseDataLine on one line; ret is the loop's final state
CallSantanderScan ==
    /\ pc = "idle"
    /\ \E line \in StringsOf(ScanAlphabet, MaxScanLen) :
          /\ arg' = line
          /\ ret' = Santander_scan(line, 1, Len(line), ScanStart)
    /\ op' = "SantanderParser._parseDataLine"
    /\ pc' = "done"
    /\ KeepScan

NextSantander ==
    \/ SantanderParseStart
    \/ SantanderParseLine
    \/ SantanderParseReturn
    \/ CallSantanderScan

SpecSantander == InitIdle /\ [][NextSantander]_vars

\* the least element of a non-empty set of integers
Least(S) == CHOOSE i \in S : \A j \in S : i <= j

\* position of the first line that starts with the header literal, 0 when none does
SantanderFirstHeader(ls) ==
    LET hs == {i \in 1..Len(ls) : StartsWith(ls[i], SantanderHeader)}
    IN IF hs = {} THEN 0 ELSE Least(hs)

\* the transactions of the data lines among ls[lo..hi], in order
RECURSIVE SantanderRowsOf(_, _, _, _)
SantanderRowsOf(ls, lo, hi, accountNumber) ==
    IF lo > hi THEN <<>>
    ELSE LET contributes ==
                 /\ Santander_isDataLine(ls[lo])
                 /\ Santander_parseDataLine(ls[lo]) # NullRecord
                 /\ IsTx(Santander_parseRow(Santander_parseDataLine(ls[lo]), accountNumber))
         IN (IF contributes
             THEN <<Santander_parseRow(Santander_parseDataLine(ls[lo]), accountNumber).tx>>
             ELSE <<>>)
                \o SantanderRowsOf(ls, lo + 1, hi, accountNumber)

\* first position after the header h that holds a blank line or a line without
\* the quoted 8-digit date token; Len(ls) + 1 when there is none
SectionEndAtNonDataLine(ls, h) ==
    Least({k \in (h + 1)..Len(ls) : ls[k] = "" \/ ~Santander_isDataLine(ls[k])}
            \cup {Len(ls) + 1})

\* the same, where a line that starts with the header literal does not end the section
SectionEndAtNonDataNonHeaderLine(ls, h) ==
    Least({k \in (h + 1)..Len(ls) :
                /\ ~StartsWith(ls[k], SantanderHeader)
                /\ (ls[k] = "" \/ ~Santander_isDataLine(ls[k]))}
            \cup {Len(ls) + 1})

SantanderParsed == pc = "done" /\ op = "SantanderParser.parse"

\* C9 as stated: parse returns the transactions of the lines after the first
\* header line and before the first later line that is blank or does not begin
\* with a quoted 8-digit date token; no line before the header and no line
\* from that one on contributes.
C9_SectionEndsAtFirstNonDataLine ==
    SantanderParsed =>
        LET h == SantanderFirstHeader(lines)
            e == SectionEndAtNonDataLine(lines, h)
        IN ret = Ok(IF h = 0 THEN <<>>
                    ELSE SantanderRowsOf(lines, h + 1, e - 1,
                                         Santander_accountNumber(lines, 1, "")))

\* C9 amended: the section ends at the first later line that is blank or begins
\* neither with the header literal nor with a quoted 8-digit date token; no line
\* before the first header line and no line from the ending one on contributes
\* a transaction.
C9_SectionEndsAtFirstNonDataNonHeaderLine ==
    SantanderParsed =>
        LET h == SantanderFirstHeader(lines)
            e == SectionEndAtNonDataNonHeaderLine(lines, h)
        IN ret = Ok(IF h = 0 THEN <<>>
                    ELSE SantanderRowsOf(lines, h + 1, e - 1,
                                         Santander_accountNumber(lines, 1, "")))

\* the loop broke at a line after which a data line follows that would have
\* given a transaction
C9_Witness ==
    /\ SantanderParsed
    /\ inDataSection
    /\ idx < Len(lines)
    /\ \E k \in (idx + 1)..Len(lines) :
          SantanderRowsOf(lines, k, k, "") # <<>>

\* the quoted stretches of a line from position from on, as pairs <<o, c>>: o holds
\* a quote character outside every earlier stretch and c is the next position
\* that holds the same character (Len(line) + 1 when the quote is never closed)
RECURSIVE QuoteSpans(_, _)
QuoteSpans(line, from) ==
    LET opens == {i \in from..Len(line) : At(line, i) \in {"'", "\""}}
    IN IF opens = {} THEN {}
       ELSE LET o == Least(opens)
                closes == {j \in (o + 1)..Len(line) : At(line, j) = At(line, o)}
            IN IF closes = {} THEN {<<o, Len(line) + 1>>}
               ELSE {<<o, Least(closes)>>} \cup QuoteSpans(line, Least(closes) + 1)

InQuotes(line, k) == \E sp \in QuoteSpans(line, 1) : sp[1] < k /\ k < sp[2]

SantanderScanned == pc = "done" /\ op = "SantanderParser._parseDataLine"

\* C10: a comma between an opening quote character and the next occurrence of
\* the same character ends no column and is kept in the current token; a comma
\* outside quotes ends the column; no other character ends a column.
C10_QuotedCommaKept ==
    SantanderScanned =>
        \A k \in 1..Len(arg) :
            LET before == Santander_scan(arg, 1, k - 1, ScanStart)
                after == Santander_scan(arg, 1, k, ScanStart)
            IN IF At(arg, k) = "," /\ InQuotes(arg, k)
               THEN after.columns = before.columns /\ after.current = before.current \o ","
               ELSE IF At(arg, k) = ","
               THEN after.columns = Append(before.columns, Trim(before.current)) /\ after.current = ""
               ELSE after.columns = before.columns

\* a line with a comma inside a closed pair of quotes and a comma outside
C10_Witness ==
    /\ SantanderScanned
    /\ \E sp \in QuoteSpans(arg, 1) :
          /\ sp[2] <= Len(arg)
          /\ \E k \in (sp[1] + 1)..(sp[2] - 1) : At(arg, k) = ","
    /\ \E k \in 1..Len(arg) : At(arg, k) = "," /\ ~InQuotes(arg, k)
    /\ Len(ret.columns) = 1

-----------------------------------------------------------------------------
(* Helpers of the row operations *)

\* String.prototype.substring(from, to), 0-based, clamped to the string
Substring(s, from, to) ==
    IF Min(from, Len(s)) >= Min(to, Len(s)) THEN ""
    ELSE SubSeq(s, Min(from, Len(s)) + 1, Min(to, Len(s)))

\* s.replace(/^0+/, '')
StripLeadingZeros(s) ==
    LET others == {i \in 1..Len(s) : At(s, i) # "0"}
    IN IF others = {} THEN "" ELSE SubSeq(s, Least(others), Len(s))

\* s.replace(p, '') for a string pattern: the first occurrence only
RemoveFirst(s, p) ==
    LET i == IndexOfFrom(s, p, 1)
    IN IF i = 0 THEN s ELSE SubSeq(s, 1, i - 1) \o SubSeq(s, i + Len(p), Len(s))

\* end of the run of characters of class cs that starts at position i: the
\* first position from i on that holds another character, Len(s) + 1 when none
RunEnd(s, i, cs) ==
    Least({j \in i..Len(s) : At(s, j) \notin cs} \cup {Len(s) + 1})

\* end of the run of characters outside class cs that starts at position i
RunEndOutside(s, i, cs) ==
    Least({j \in i..Len(s) : At(s, j) \in cs} \cup {Len(s) + 1})

\* positions where the literal kw occurs in s
Occurrences(s, kw) == {i \in 1..(Len(s) - Len(kw) + 1) : SubSeq(s, i, i + Len(kw) - 1) = kw}

\* description.match(/Referencia:\s*([^|]+)/)[1], Null without a match. The
\* white space is skipped greedily; when the bar or the end follows it, the
\* last white-space character is given back to the group.
MatchReferencia(description) ==
    LET kw == "Referencia:"
        groupStart(i) ==
            LET w == RunEnd(description, i + Len(kw), WhiteSpace)
            IN IF w <= Len(description) /\ At(description, w) # "|" THEN w
               ELSE IF w > i + Len(kw) THEN w - 1
               ELSE 0
        starts == {i \in Occurrences(description, kw) : groupStart(i) # 0}
    IN IF starts = {} THEN Null
       ELSE LET g == groupStart(Least(starts))
            IN SubSeq(description, g, RunEndOutside(description, g, {"|"}) - 1)

\* description.match(/Clave de Rastreo:\s*(\S+)/)[1], Null without a match
MatchClaveDeRastreo(description) ==
    LET kw == "Clave de Rastreo:"
        groupStart(i) == RunEnd(description, i + Len(kw), WhiteSpace)
        starts == {i \in Occurrences(description, kw) : groupStart(i) <= Len(description)}
    IN IF starts = {} THEN Null
       ELSE LET g == groupStart(Least(starts))
            IN SubSeq(description, g, RunEndOutside(description, g, WhiteSpace) - 1)

\* description.match(/Recibo #\s*(\d+)/)[1], Null without a match
MatchRecibo(description) ==
    LET kw == "Recibo #"
        groupStart(i) == RunEnd(description, i + Len(kw), WhiteSpace)
        starts == {i \in Occurrences(description, kw) :
                      /\ groupStart(i) <= Len(description)
                      /\ IsDigit(At(description, groupStart(i)))}
    IN IF starts = {} THEN Null
       ELSE LET g == groupStart(Least(starts))
            IN SubSeq(description, g, RunEnd(description, g, Digits) - 1)

\* BanBajioParser._extractReference
BanBajio_extractReference(description) ==
    IF MatchReferencia(description) # Null THEN Trim(MatchReferencia(description))
    ELSE IF MatchClaveDeRastreo(description) # Null THEN Trim(MatchClaveDeRastreo(description))
    ELSE IF MatchRecibo(description) # Null THEN Trim(MatchRecibo(description))
    ELSE ""

\* the least run of digits that /\/(\d{10,})/ accepts
BbvaReferenceDigits == 10

\* BbvaParser._extractReference: description.match(/\/(\d{10,})/), '' without a match
Bbva_extractReference(description) ==
    LET starts == {i \in Occurrences(description, "/") :
                      RunEnd(description, i + 1, Digits) - (i + 1) >= BbvaReferenceDigits}
    IN IF starts = {} THEN ""
       ELSE SubSeq(description, Least(starts) + 1,
                   RunEnd(description, Least(starts) + 1, Digits) - 1)

-----------------------------------------------------------------------------
(* Currency normalizers *)

\* BanregioParser._parseCurrency
Banregio_parseCurrency(str) ==
    IF ~Truthy(str) \/ Trim(str) = "" \/ str = "$0.00" \/ str = "0.00" THEN 0
    ELSE OrZero(ParseFloat(Trim(RemoveChars(RemoveChars(str, {"$"}), {","}))))

\* BanorteParser._parseCurrency
Banorte_parseCurrency(str) ==
    IF ~Truthy(str) \/ Trim(str) = "" \/ str = "$0.00" THEN 0
    ELSE OrZero(ParseFloat(Trim(RemoveChars(RemoveChars(str, {"$"}), {","}))))

\* BanorteParser._parseMoney (the revision that reads the file with Papa)
Banorte_parseMoney(str) ==
    IF ~Truthy(str) THEN 0 ELSE OrZero(ParseFloat(RemoveChars(str, {"$", ","})))

\* AfirmeParser._parseNumber
Afirme_parseNumber(str) ==
    IF ~Truthy(str) \/ Trim(str) = "" THEN 0
    ELSE OrZero(ParseFloat(Trim(RemoveChars(str, {","}))))

\* BbvaParser._parseNumber
Bbva_parseNumber(str) ==
    IF ~Truthy(str) \/ Trim(str) = "" THEN 0
    ELSE OrZero(ParseFloat(Trim(RemoveChars(str, {","}))))

\* BanBajioParser._parseNumber (header-marker revisions)
BanBajio_parseNumber(str) ==
    IF ~Truthy(str) \/ Trim(str) = "" THEN 0
    ELSE OrZero(ParseFloat(Trim(RemoveChars(str, {","}))))

\* BanBajioParser._parseNumber (positional revision)
BanBajioPositional_parseNumber(str) ==
    IF ~Truthy(str) \/ Trim(str) = "" THEN 0
    ELSE OrZero(ParseFloat(Trim(RemoveChars(str, {"\"", "'", ","}))))

\* BanBajioParser._parseMoney (line revision)
BanBajioLine_parseMoney(str) ==
    IF ~Truthy(str) THEN 0 ELSE OrZero(ParseFloat(RemoveChars(str, {","})))

\* HsbcParser._parseCurrency, for a cell that holds text
Hsbc_parseCurrency(str) ==
    IF ~Truthy(str) THEN 0 ELSE OrZero(ParseFloat(Trim(RemoveChars(str, {","}))))

\* ScotiabankParser._parseNumber
Scotiabank_parseNumber(str) ==
    IF ~Truthy(str) \/ Trim(str) = "" THEN 0
    ELSE OrZero(ParseFloat(StripLeadingZeros(str)))

-----------------------------------------------------------------------------
(* JSON.stringify of records with number columns *)

\* a non-negative integer in decimal
RECURSIVE NatToString(_)
NatToString(n) ==
    IF n < 10 THEN At("0123456789", n + 1)
    ELSE NatToString(n \div 10) \o At("0123456789", (n % 10) + 1)

\* a number (in hundredths) as JavaScript prints it: 1234.5, 50, -0.05
NumberToString(v) ==
    LET mag == IF v < 0 THEN 0 - v ELSE v
        cents == mag % 100
        fraction == IF cents = 0 THEN ""
                    ELSE IF cents % 10 = 0 THEN "." \o NatToString(cents \div 10)
                    ELSE "." \o NatToString(cents \div 10) \o NatToString(cents % 10)
    IN (IF v < 0 THEN "-" ELSE "") \o NatToString(mag \div 100) \o fraction

\* the members of JSON.stringify(record): the keys the record has, in the order
\* keys, number columns printed bare
RECURSIVE JsonMembersOf(_, _, _, _)
JsonMembersOf(record, keys, numeric, first) ==
    IF Len(keys) = 0 THEN ""
    ELSE IF keys[1] \notin DOMAIN record THEN JsonMembersOf(record, Tail(keys), numeric, first)
    ELSE (IF first THEN "" ELSE ",") \o "\"" \o keys[1] \o "\":"
            \o (IF keys[1] \in numeric THEN NumberToString(record[keys[1]])
                ELSE "\"" \o JsonEscape(record[keys[1]]) \o "\"")
            \o JsonMembersOf(record, Tail(keys), numeric, FALSE)

JsonStringifyRecord(record, keys, numeric) ==
    "{" \o JsonMembersOf(record, keys, numeric, TRUE) \o "}"

\* the columns that the cast callbacks turn into numbers
CastColumns == {"debit", "credit", "balance"}

-----------------------------------------------------------------------------
(* parseRow of the parsers that read a record *)

\* the result of a description miner in which nothing was found; the fields are
\* those that the parseRow methods read
NoExtraction ==
    [actualDescription |-> Null, beneficiary |-> Null, establishment |-> Null,
     trackingKey |-> Null, reference |-> Null, hour |-> Null, time |-> Null,
     rfc |-> Null, concept |-> Null, transactionDate |-> Null]

BanregioBank == [id |-> "058", code |-> "40058", name |-> "BANREGIO"]
BanregioKeys == <<"date", "description", "reference", "debit", "credit", "balance", "classification">>

\* BanregioParser.parseRow, first revision (no description mining)
BanregioV1_parseRow(record, accountNumber) ==
    IF ~Truthy(StrOf(record, "date")) \/ ~Truthy(StrOf(record, "description")) THEN RowNull
    ELSE LET date == BanregioV1_formatDate(record.date)
             debit == NumOf(record, "debit")
             credit == NumOf(record, "credit")
             balance == NumOf(record, "balance")
             amount == IF credit # 0 THEN credit ELSE 0 - debit
         IN IF date.threw THEN RowThrow
            ELSE RowTx(Transaction(
                    [date |-> date.value,
                     type |-> IF credit # 0 THEN "credit" ELSE "debit",
                     amount |-> amount,
                     balance |-> balance,
                     reference |-> OrElse(StrOf(record, "reference"), ""),
                     accountNumber |-> accountNumber,
                     description |-> Trim(record.description),
                     bank |-> BanregioBank,
                     raw |-> JsonStringifyRecord(record, BanregioKeys, CastColumns)]))

\* BanregioParser.parseRow; extractedData is what _extractFromDescription
\* returned for record.description
Banregio_parseRow(record, accountNumber, extractedData) ==
    IF ~Truthy(StrOf(record, "date")) \/ ~Truthy(StrOf(record, "description")) THEN RowNull
    ELSE LET date == Banregio_formatDate(record.date)
             debit == NumOf(record, "debit")
             credit == NumOf(record, "credit")
             balance == NumOf(record, "balance")
             amount == IF credit # 0 THEN credit ELSE 0 - debit
         IN RowTx(Transaction(
                [date |-> date.value,
                 type |-> IF credit # 0 THEN "credit" ELSE "debit",
                 amount |-> amount,
                 balance |-> balance,
                 reference |-> RemoveFirst(OrElse(StrOf(record, "reference"), ""), "_"),
                 accountNumber |-> accountNumber,
                 description |-> OrElse(extractedData.actualDescription, Trim(record.description)),
                 beneficiary |-> OrElse(extractedData.establishment, Null),
                 rfc |-> OrElse(extractedData.rfc, Null),
                 trackingKey |-> OrElse(extractedData.trackingKey, Null),
                 transactionDate |-> OrElse(extractedData.transactionDate, Null),
                 bank |-> BanregioBank,
                 raw |-> JsonStringifyRecord(record, BanregioKeys, CastColumns)]))

BanBajioBank == [id |-> "030", code |-> "40030", name |-> "BAJIO"]
BanBajioKeys == <<"sequence", "date", "time", "receipt", "description", "debit", "credit", "balance">>

\* BanBajioParser.parseRow of the header-marker revision without description
\* mining (its bank is the string 'BANBAJIO')
BanBajioV1_parseRow(record, accountNumber) ==
    IF ~Truthy(StrOf(record, "date")) \/ ~Truthy(StrOf(record, "description")) THEN RowNull
    ELSE LET date == BanBajio_formatDate(record.date)
             debit == NumOf(record, "debit")
             credit == NumOf(record, "credit")
             balance == NumOf(record, "balance")
             amount == IF credit # 0 THEN credit ELSE 0 - debit
         IN RowTx(Transaction(
                [date |-> date.value,
                 type |-> IF credit # 0 THEN "credit" ELSE "debit",
                 amount |-> amount,
                 balance |-> balance,
                 reference |-> BanBajio_extractReference(record.description),
                 accountNumber |-> accountNumber,
                 description |-> Trim(record.description),
                 bank |-> BankLabel("BANBAJIO"),
                 raw |-> JsonStringifyRecord(record, BanBajioKeys, CastColumns \cup {"sequence"})]))

\* BanBajioParser.parseRow of the header-marker revision; extractedData is what
\* _extractFromDescription returned for record.description
BanBajio_parseRow(record, accountNumber, extractedData) ==
    IF ~Truthy(StrOf(record, "date")) \/ ~Truthy(StrOf(record, "description")) THEN RowNull
    ELSE LET date == BanBajio_formatDate(record.date)
             debit == NumOf(record, "debit")
             credit == NumOf(record, "credit")
             balance == NumOf(record, "balance")
             amount == IF credit # 0 THEN credit ELSE 0 - debit
             reference == OrElse(extractedData.reference,
                                 OrElse(BanBajio_extractReference(record.description), ""))
         IN RowTx(Transaction(
                [date |-> date.value,
                 time |-> OrElse(extractedData.time, OrElse(StrOf(record, "time"), Null)),
                 type |-> IF credit # 0 THEN "credit" ELSE "debit",
                 amount |-> amount,
                 balance |-> balance,
                 reference |-> reference,
                 accountNumber |-> accountNumber,
                 description |-> OrElse(extractedData.actualDescription, Trim(record.description)),
                 beneficiary |-> OrElse(extractedData.beneficiary, Null),
                 trackingKey |-> OrElse(extractedData.trackingKey, Null),
                 rfc |-> OrElse(extractedData.rfc, Null),
                 concept |-> OrElse(extractedData.concept, Null),
                 bank |-> BanBajioBank,
                 raw |-> JsonStringifyRecord(record, BanBajioKeys, CastColumns \cup {"sequence"})]))

AfirmeBank == [id |-> "062", code |-> "40062", name |-> "AFIRME"]
AfirmeKeys == <<"description", "date", "reference", "debit", "credit", "balance", "account",
                "code", "sequence">>

\* AfirmeParser.parseRow; extractedData is what _extractFromDescription returned
\* for record.description and actualDescription what _buildActualDescription
\* built from both
Afirme_parseRow(record, extractedData, actualDescription) ==
    IF ~Truthy(StrOf(record, "date")) \/ ~Truthy(StrOf(record, "description")) THEN RowNull
    ELSE LET date == Afirme_formatDate(record.date)
             debit == NumOf(record, "debit")
             credit == NumOf(record, "credit")
             balance == NumOf(record, "balance")
             amount == IF credit # 0 THEN credit ELSE 0 - debit
             reference == OrElse(extractedData.reference, OrElse(StrOf(record, "reference"), ""))
         IN IF date.threw THEN RowThrow
            ELSE RowTx(Transaction(
                    [date |-> date.value,
                     type |-> IF credit # 0 THEN "credit" ELSE "debit",
                     amount |-> amount,
                     balance |-> balance,
                     reference |-> reference,
                     accountNumber |-> OrElse(StrOf(record, "account"), ""),
                     description |-> actualDescription,
                     beneficiary |-> OrElse(extractedData.beneficiary, Null),
                     trackingKey |-> OrElse(extractedData.trackingKey, Null),
                     hour |-> OrElse(extractedData.hour, ""),
                     rfc |-> OrElse(extractedData.rfc, ""),
                     concept |-> OrElse(extractedData.concept, ""),
                     bank |-> AfirmeBank,
                     raw |-> JsonStringifyRecord(record, AfirmeKeys, CastColumns)]))

BbvaBank == [id |-> "012", code |-> "40012", name |-> "BBVA MEXICO"]
BbvaKeys == <<"date", "description", "debit", "credit", "balance">>

\* BbvaParser.parseRow
Bbva_parseRow(record) ==
    IF ~Truthy(StrOf(record, "date")) \/ ~Truthy(StrOf(record, "description")) THEN RowNull
    ELSE LET date == Bbva_formatDate(record.date)
             debit == NumOf(record, "debit")
             credit == NumOf(record, "credit")
             balance == NumOf(record, "balance")
             amount == IF credit # 0 THEN credit ELSE 0 - debit
         IN IF date.threw THEN RowThrow
            ELSE RowTx(Transaction(
                    [date |-> date.value,
                     type |-> IF credit # 0 THEN "credit" ELSE "debit",
                     amount |-> amount,
                     balance |-> balance,
                     reference |-> Bbva_extractReference(record.description),
                     accountNumber |-> "",
                     description |-> Trim(record.description),
                     bank |-> BbvaBank,
                     raw |-> JsonStringifyRecord(record, BbvaKeys, CastColumns)]))

-----------------------------------------------------------------------------
(* parseRow of the parsers that read text cells *)

BanorteBank == [id |-> "072", code |-> "40072", name |-> "BANORTE"]
BanorteKeys == <<"account", "date", "reference", "description", "deposits", "withdrawals",
                 "balance", "detailedDescription">>

\* BanorteParser.parseRow; extractedData is what _extractFromDetailedDescription
\* returned for record.detailedDescription (NoExtraction when that is empty)
Banorte_parseRow(record, extractedData) ==
    IF ~Truthy(StrOf(record, "date")) \/ ~Truthy(StrOf(record, "description")) THEN RowNull
    ELSE LET date == Banorte_formatDate(record.date)
             deposits == Banorte_parseCurrency(StrOf(record, "deposits"))
             withdrawals == Banorte_parseCurrency(StrOf(record, "withdrawals"))
             balance == Banorte_parseCurrency(StrOf(record, "balance"))
             amount == IF deposits # 0 THEN deposits ELSE 0 - withdrawals
         IN IF date.threw THEN RowThrow
            ELSE RowTx(Transaction(
                    [date |-> date.value,
                     type |-> IF deposits # 0 THEN "credit" ELSE "debit",
                     amount |-> amount,
                     balance |-> balance,
                     reference |-> OrElse(StrOf(record, "reference"), ""),
                     accountNumber |-> OrElse(StrOf(record, "account"), ""),
                     description |-> OrElse(extractedData.actualDescription, Trim(record.description)),
                     beneficiary |-> extractedData.beneficiary,
                     trackingKey |-> extractedData.trackingKey,
                     time |-> extractedData.time,
                     rfc |-> extractedData.rfc,
                     concept |-> extractedData.concept,
                     bank |-> BanorteBank,
                     raw |-> JsonStringifyRecord(record, BanorteKeys, {})]))

BanortePapaKeys == <<"Cuenta", "Fecha De Operación", "Referencia", "Descripción", "Depósitos",
                     "Retiros", "Saldo">>

\* BanorteParser.parseRecord (the revision that reads the file with Papa): the
\* test is on the account and the date
Banorte_parseRecord(record) ==
    LET account == StrOf(record, "Cuenta")
        dateStr == StrOf(record, "Fecha De Operación")
        reference == StrOf(record, "Referencia")
        description == StrOf(record, "Descripción")
    IN IF ~Truthy(account) \/ ~Truthy(dateStr) THEN RowNull
       ELSE LET date == Banorte_formatDate(dateStr)
                deposits == Banorte_parseMoney(StrOf(record, "Depósitos"))
                withdrawals == Banorte_parseMoney(StrOf(record, "Retiros"))
                balance == Banorte_parseMoney(StrOf(record, "Saldo"))
                amount == IF deposits # 0 THEN deposits ELSE 0 - withdrawals
            IN IF date.threw THEN RowThrow
               ELSE RowTx(Transaction(
                       [date |-> date.value,
                        type |-> IF deposits # 0 THEN "credit" ELSE "debit",
                        amount |-> amount,
                        balance |-> balance,
                        reference |-> reference,
                        account |-> account,
                        description |-> description,
                        bank |-> BankLabel("Banorte"),
                        raw |-> JsonStringifyRecord(record, BanortePapaKeys, {})]))

HsbcBank == [id |-> "021", code |-> "40021", name |-> "HSBC"]
HsbcKeys == <<"entryDate", "description", "clientReference", "bankReference", "debitAmount",
              "creditAmount", "balance">>

\* HsbcParser.parseRow for a record of text cells; extractedData is what
\* _extractFromDescription returned for record.description
Hsbc_parseRow(record, accountNumber, extractedData) ==
    IF ~Truthy(StrOf(record, "entryDate")) \/ ~Truthy(StrOf(record, "description")) THEN RowNull
    ELSE LET date == Hsbc_formatDate(record.entryDate)
             credit == Hsbc_parseCurrency(StrOf(record, "creditAmount"))
             debit == Hsbc_parseCurrency(StrOf(record, "debitAmount"))
             balance == Hsbc_parseCurrency(StrOf(record, "balance"))
             amount == IF credit # 0 THEN credit ELSE 0 - debit
         IN RowTx(Transaction(
                [date |-> date.value,
                 type |-> IF credit # 0 THEN "credit" ELSE "debit",
                 amount |-> amount,
                 balance |-> balance,
                 reference |-> OrElse(StrOf(record, "clientReference"),
                                      OrElse(StrOf(record, "bankReference"), "")),
                 accountNumber |-> accountNumber,
                 description |-> OrElse(extractedData.actualDescription, Trim(record.description)),
                 beneficiary |-> extractedData.beneficiary,
                 trackingKey |-> extractedData.trackingKey,
                 concept |-> extractedData.concept,
                 bank |-> HsbcBank,
                 raw |-> JsonStringifyRecord(record, HsbcKeys, {})]))

\* BanBajioParser._formatDate of the positional revision: DD/MM/YYYY
BanBajioPositional_formatDate(input) ==
    LET parts == Split(input, "/")
    IN IF Len(parts) = 3
       THEN Ok(parts[3] \o "-" \o PadStart2(parts[2]) \o "-" \o PadStart2(parts[1]))
       ELSE Ok(input)

\* BanBajioParser.parseRow of the positional revision: record is the array of
\* cells (record[0] is cells[1]); extractedData is what _extractFromDescription
\* returned for record[4]
BanBajioPositional_parseRow(cells, extractedData) ==
    IF ~Truthy(Elem(cells, 2)) \/ ~Truthy(Elem(cells, 5)) THEN RowNull
    ELSE LET date == BanBajioPositional_formatDate(cells[2])
             debit == BanBajioPositional_parseNumber(OrElse(Elem(cells, 7), "0"))
             credit == BanBajioPositional_parseNumber(OrElse(Elem(cells, 8), "0"))
             balance == BanBajioPositional_parseNumber(OrElse(Elem(cells, 9), "0"))
             amount == IF credit # 0 THEN credit ELSE 0 - debit
         IN RowTx(Transaction(
                [date |-> date.value,
                 hour |-> OrElse(extractedData.hour, Null),
                 type |-> IF credit # 0 THEN "credit" ELSE "debit",
                 amount |-> amount,
                 balance |-> balance,
                 reference |-> OrElse(extractedData.reference, OrElse(Elem(cells, 4), "")),
                 accountNumber |-> OrElse(Elem(cells, 1), ""),
                 description |-> OrElse(extractedData.actualDescription, Trim(cells[5])),
                 beneficiary |-> OrElse(extractedData.beneficiary, Null),
                 trackingKey |-> OrElse(extractedData.trackingKey, Null),
                 rfc |-> OrElse(extractedData.rfc, Null),
                 concept |-> OrElse(extractedData.concept, Null),
                 bank |-> BanBajioBank]))

\* the commas at which _splitCsvWithLimit cuts
BanBajioLineLimit == 7

\* a split that cuts at every comma, whatever the limit
BanBajio_splitCsvWithLimit_unlimited(line, limit) == Split(line, ",")

\* BanBajioParser._splitCsvWithLimit(line, limit): cut at the first limit commas
BanBajio_splitCsvWithLimit(line, limit) ==
    LET commas == {i \in 1..Len(line) : At(line, i) = ","}
        cuts == {i \in commas : Cardinality({j \in commas : j < i}) < limit}
        n == Cardinality(cuts)
        cut(k) == IF k = 0 THEN 0
                  ELSE IF k = n + 1 THEN Len(line) + 1
                  ELSE CHOOSE i \in cuts : Cardinality({j \in cuts : j < i}) = k - 1
    IN [k \in 1..(n + 1) |-> SubSeq(line, cut(k - 1) + 1, cut(k) - 1)]

\* BanBajioParser._formatDateTime (line revision): DD-MMM-YYYY and a time
BanBajio_formatDateTime(dateStr, timeStr) ==
    LET parts == Split(dateStr, "-")
        day == Elem(parts, 1)
        mon == Elem(parts, 2)
        year == Elem(parts, 3)
    IN Ok(Str(year) \o "-" \o (IF mon = Undefined THEN "01" ELSE MonthOrJanuary(mon)) \o "-"
            \o PadStart2(day) \o "T" \o timeStr)

\* BanBajioParser.parseLine (line revision): no test on the date or the description
BanBajio_parseLine(line) ==
    LET parts == BanBajio_splitCsvWithLimit(line, BanBajioLineLimit)
    IN IF Len(parts) < 8 THEN RowNull
       ELSE LET date == BanBajio_formatDateTime(parts[2], parts[3])
                charges == BanBajioLine_parseMoney(parts[6])
                credits == BanBajioLine_parseMoney(parts[7])
                balance == BanBajioLine_parseMoney(parts[8])
                amount == IF credits # 0 THEN credits ELSE 0 - charges
            IN RowTx(Transaction(
                   [date |-> date.value,
                    type |-> IF credits # 0 THEN "credit" ELSE "debit",
                    amount |-> amount,
                    balance |-> balance,
                    reference |-> parts[4],
                    account |-> Null,
                    description |-> parts[5],
                    bank |-> BankLabel("BanBajio"),
                    raw |-> line]))

ScotiabankBank == [id |-> "044", code |-> "40044", name |-> "SCOTIABANK"]

\* fullLine.includes('TRANSF. INTERBANCARIA SPEI') || fullLine.includes('TRANSF INTERBANCARIA SPEI')
Scotiabank_isSpei(fullLine) ==
    Includes(fullLine, "TRANSF. INTERBANCARIA SPEI") \/ Includes(fullLine, "TRANSF INTERBANCARIA SPEI")

\* a parseRow that keeps the amount field's sign whatever the operation type
Scotiabank_parseRow_unsigned(line, extracted) ==
    LET recordType == Substring(line, 0, 6)
        type == IF Includes(ToLowerCase(Substring(line, 63, 68)), "abono")
                THEN "credit" ELSE "debit"
    IN IF recordType # "CHQMXN" THEN RowNull
       ELSE RowTx(Transaction(
                [date |-> Scotiabank_formatDate(Substring(line, 26, 36)).value,
                 type |-> type,
                 amount |-> Scotiabank_parseNumber(Substring(line, 46, 63)),
                 balance |-> Scotiabank_parseNumber(Substring(line, 68, 85)),
                 reference |-> Trim(Substring(line, 36, 46)),
                 accountNumber |-> OrElse(StripLeadingZeros(Trim(Substring(line, 6, 26))), Null),
                 description |-> Trim(Substring(line, 135, 165)),
                 bank |-> ScotiabankBank]))

\* ScotiabankParser.parseRow on a fixed-width line; extracted is what
\* _extractSpeiReceived or _extractSpeiSent returned for a SPEI line
Scotiabank_parseRow(line, extracted) ==
    LET recordType == Substring(line, 0, 6)
        accountNumber == Substring(line, 6, 26)
        dateSegment == Substring(line, 26, 36)
        reference == Substring(line, 36, 46)
        amountSegment == Substring(line, 46, 63)
        operationType == Substring(line, 63, 68)
        balanceSegment == Substring(line, 68, 85)
        description == Substring(line, 135, 165)
    IN IF recordType # "CHQMXN" THEN RowNull
       ELSE LET date == Scotiabank_formatDate(dateSegment)
                amount == Scotiabank_parseNumber(amountSegment)
                balance == Scotiabank_parseNumber(balanceSegment)
                type == IF Includes(ToLowerCase(operationType), "abono") THEN "credit" ELSE "debit"
            IN RowTx(Transaction(
                   [date |-> date.value,
                    type |-> type,
                    amount |-> IF type = "credit" THEN amount ELSE 0 - amount,
                    balance |-> balance,
                    reference |-> Trim(reference),
                    accountNumber |-> OrElse(StripLeadingZeros(Trim(accountNumber)), Null),
                    description |-> Trim(description),
                    beneficiary |-> IF Scotiabank_isSpei(line) THEN extracted.beneficiary ELSE Null,
                    trackingKey |-> IF Scotiabank_isSpei(line) THEN extracted.trackingKey ELSE Null,
                    time |-> IF Scotiabank_isSpei(line) THEN extracted.time ELSE Null,
                    concept |-> Trim(description),
                    bank |-> ScotiabankBank]))

-----------------------------------------------------------------------------
(* The row operations, each called once on a row drawn from a pool *)

\* what a miner can hand to parseRow: nothing found, or every field found
ExtractedPool ==
    {NoExtraction,
     [actualDescription |-> "TIENDA LA ESQUINA", beneficiary |-> "JUAN PEREZ",
      establishment |-> "JUAN PEREZ", trackingKey |-> "MBAN01002403010000000001",
      reference |-> "R9", hour |-> "10:15:00", time |-> "10:15:00",
      rfc |-> "XAXX010101000", concept |-> "PAGO", transactionDate |-> "2024-03-01"]}

\* number cells after the cast callback, in hundredths
AmountPool == {0, 5000, 0 - 500}

\* text cells of an amount column
AmountCellPool == {"", "0.00", "50.00", "-5.00", "$1,234.56"}

DescriptionPool == {"", "  ", "PAGO TIENDA", "SPEI | Referencia: 77 | PAGO /1234567890"}

\* records as csv.parse hands them to parseRow: text columns and cast number
\* columns; with relax_column_count a short line gives a record without its
\* last columns
CastRecordPool(dates) ==
    {[date |-> d, description |-> s, reference |-> "REF_1", debit |-> db, credit |-> cr,
      balance |-> 100000, time |-> "09:30:00", account |-> "0123456789"] :
        d \in dates, s \in DescriptionPool, db \in AmountPool, cr \in AmountPool}
    \cup {[date |-> d, description |-> s] : d \in dates, s \in DescriptionPool}

SlashDatePool == {"", "01/03/2024", "1/3/24", "20240301"}
DashDatePool == {"", "01-03-2024", "20240301"}
MonthDatePool == {"", "28-Nov-2024", "5-Dic-2024", "20240301"}

RowDone(name, input, result) ==
    /\ op' = name
    /\ arg' = input
    /\ ret' = result
    /\ pc' = "done"
    /\ KeepScan

CallSantanderParseRow ==
    /\ pc = "idle"
    /\ \E d \in {"", "01032024", "010324"}, s \in {"", "DEPOSITO", "COMISION"},
       db \in AmountCellPool \cup {"'1,250.50'"}, cr \in AmountCellPool,
       c \in {"", "NOMINA", "REF 0000000"} :
        LET record == [date |-> d, time |-> "10:15", branch |-> "0001", description |-> s,
                       debit |-> db, credit |-> cr, balance |-> "1,500.00",
                       reference |-> "REF1", concept |-> c]
        IN RowDone("SantanderParser.parseRow", [record |-> record],
                   Santander_parseRow(record, "65-50123456-7"))

CallBanregioV1ParseRow ==
    /\ pc = "idle"
    /\ \E record \in CastRecordPool(SlashDatePool) :
        RowDone("BanregioParser(v1).parseRow", [record |-> record],
                BanregioV1_parseRow(record, Null))

CallBanregioParseRow ==
    /\ pc = "idle"
    /\ \E record \in CastRecordPool(SlashDatePool), extractedData \in ExtractedPool :
        RowDone("BanregioParser.parseRow", [record |-> record, extractedData |-> extractedData],
                Banregio_parseRow(record, "123456789", extractedData))

CallBanBajioV1ParseRow ==
    /\ pc = "idle"
    /\ \E record \in CastRecordPool(MonthDatePool) :
        RowDone("BanBajioParser(v1).parseRow", [record |-> record],
                BanBajioV1_parseRow(record, "0123456789"))

CallBanBajioParseRow ==
    /\ pc = "idle"
    /\ \E record \in CastRecordPool(MonthDatePool), extractedData \in ExtractedPool :
        RowDone("BanBajioParser.parseRow", [record |-> record, extractedData |-> extractedData],
                BanBajio_parseRow(record, "0123456789", extractedData))

CallAfirmeParseRow ==
    /\ pc = "idle"
    /\ \E record \in CastRecordPool(SlashDatePool), extractedData \in ExtractedPool,
       actualDescription \in {"", "TIENDA LA ESQUINA"} :
        RowDone("AfirmeParser.parseRow",
                [record |-> record, extractedData |-> extractedData,
                 actualDescription |-> actualDescription],
                Afirme_parseRow(record, extractedData, actualDescription))

CallBbvaParseRow ==
    /\ pc = "idle"
    /\ \E record \in CastRecordPool(DashDatePool) :
        RowDone("BbvaParser.parseRow", [record |-> record], Bbva_parseRow(record))

CallBanorteParseRow ==
    /\ pc = "idle"
    /\ \E d \in SlashDatePool, s \in DescriptionPool, dep \in AmountCellPool,
       wd \in AmountCellPool, extractedData \in ExtractedPool :
        LET record == [account |-> "0123456789", date |-> d, reference |-> "REF1",
                       description |-> s, deposits |-> dep, withdrawals |-> wd,
                       balance |-> "$1,000.00", detailedDescription |-> ""]
        IN RowDone("BanorteParser.parseRow",
                   [record |-> record, extractedData |-> extractedData],
                   Banorte_parseRow(record, extractedData))

CallBanorteParseRecord ==
    /\ pc = "idle"
    /\ \E a \in {"", "0123456789"}, d \in SlashDatePool, s \in DescriptionPool,
       dep \in AmountCellPool, wd \in AmountCellPool :
        LET record == ("Cuenta" :> a) @@ ("Fecha De Operación" :> d) @@ ("Referencia" :> "REF1")
                        @@ ("Descripción" :> s) @@ ("Depósitos" :> dep) @@ ("Retiros" :> wd)
                        @@ ("Saldo" :> "$1,000.00")
        IN RowDone("BanorteParser.parseRecord", [record |-> record],
                   Banorte_parseRecord(record))

CallHsbcParseRow ==
    /\ pc = "idle"
    /\ \E d \in SlashDatePool, s \in DescriptionPool, db \in AmountCellPool,
       cr \in AmountCellPool, extractedData \in ExtractedPool :
        LET record == [entryDate |-> d, description |-> s, clientReference |-> "",
                       bankReference |-> "B1", debitAmount |-> db, creditAmount |-> cr,
                       balance |-> "1,000.00"]
        IN RowDone("HsbcParser.parseRow",
                   [record |-> record, extractedData |-> extractedData],
                   Hsbc_parseRow(record, "0123456789", extractedData))

CallBanBajioPositionalParseRow ==
    /\ pc = "idle"
    /\ \E d \in SlashDatePool, s \in DescriptionPool, db \in AmountCellPool,
       cr \in AmountCellPool, extractedData \in ExtractedPool :
        LET cells == <<"0123456789", d, "09:30", "R1", s, "", db, cr, "1,000.00">>
        IN RowDone("BanBajioParser(positional).parseRow",
                   [record |-> cells, extractedData |-> extractedData],
                   BanBajioPositional_parseRow(cells, extractedData))

CallBanBajioParseLine ==
    /\ pc = "idle"
    /\ \E d \in MonthDatePool, s \in DescriptionPool \cup {"PAGO, TIENDA"},
       db \in {"", "0.00", "50.00", "-5.00"}, cr \in {"", "0.00", "50.00", "-5.00"},
       tail \in {",100.00", ""} :
        LET line == "1," \o d \o ",09:30:00,R1," \o s \o "," \o db \o "," \o cr \o tail
        IN RowDone("BanBajioParser(line).parseLine", [line |-> line], BanBajio_parseLine(line))

\* s followed by blanks up to the width n of a fixed-width segment
PadEnd(s, n) ==
    s \o SubSeq("                                                            ", 1, n - Len(s))

\* fixed-width lines: record type, account, date, reference, amount, operation
\* type, balance, 50 columns of other data, description; and lines cut short
ScotiabankLinePool ==
    {"CHQMXN" \o "00000000000123456789" \o d \o "0000012345" \o a \o t
        \o "00000000010000.00" \o PadEnd("", 50) \o PadEnd(s, 30) :
        d \in {"2024/03/01", "          "},
        a \in {"00000000001500.00", "00000000000000.00", "-0000000000100.00"},
        t \in {"ABONO", "CARGO", "Abono"},
        s \in {"PAGO NOMINA", "", "TRANSF. INTERBANCARIA SPEI"}}
    \cup {"CHQMXN", "CHQMXN00000000000123456789", "CHQUSD00000000000123456789",
          "Saldo final del periodo"}

CallScotiabankParseRow ==
    /\ pc = "idle"
    /\ \E line \in ScotiabankLinePool, extracted \in ExtractedPool :
        RowDone("ScotiabankParser.parseRow", [line |-> line, extracted |-> extracted],
                Scotiabank_parseRow(line, extracted))

NextRow ==
    \/ CallSantanderParseRow
    \/ CallBanregioV1ParseRow
    \/ CallBanregioParseRow
    \/ CallBanBajioV1ParseRow
    \/ CallBanBajioParseRow
    \/ CallAfirmeParseRow
    \/ CallBbvaParseRow
    \/ CallBanorteParseRow
    \/ CallBanorteParseRecord
    \/ CallHsbcParseRow
    \/ CallBanBajioPositionalParseRow
    \/ CallBanBajioParseLine
    \/ CallScotiabankParseRow

SpecRow == InitIdle /\ [][NextRow]_vars

-----------------------------------------------------------------------------
(* The sign of the amount *)

\* the row operations of the delimited and header-driven parsers
CreditColumnOps ==
    {"SantanderParser.parseRow", "BanregioParser(v1).parseRow", "BanregioParser.parseRow",
     "BanBajioParser(v1).parseRow", "BanBajioParser.parseRow", "AfirmeParser.parseRow",
     "BbvaParser.parseRow", "BanorteParser.parseRow", "BanorteParser.parseRecord",
     "HsbcParser.parseRow", "BanBajioParser(positional).parseRow",
     "BanBajioParser(line).parseLine"}

\* the operations whose number columns reach parseRow already cast
CastColumnOps ==
    {"BanregioParser(v1).parseRow", "BanregioParser.parseRow", "BanBajioParser(v1).parseRow",
     "BanBajioParser.parseRow", "AfirmeParser.parseRow", "BbvaParser.parseRow"}

\* the numeric value of the credit column of the row that was parsed
RowCredit ==
    IF op \in CastColumnOps THEN NumOf(arg.record, "credit")
    ELSE CASE op = "SantanderParser.parseRow" -> Santander_parseCurrency(arg.record.credit)
           [] op = "BanorteParser.parseRow" -> Banorte_parseCurrency(arg.record.deposits)
           [] op = "BanorteParser.parseRecord" -> Banorte_parseMoney(arg.record["Depósitos"])
           [] op = "HsbcParser.parseRow" -> Hsbc_parseCurrency(arg.record.creditAmount)
           [] op = "BanBajioParser(positional).parseRow" ->
                  BanBajioPositional_parseNumber(arg.record[8])
           [] op = "BanBajioParser(line).parseLine" ->
                  BanBajioLine_parseMoney(BanBajio_splitCsvWithLimit(arg.line, BanBajioLineLimit)[7])

\* the numeric value of the debit column of the row that was parsed
RowDebit ==
    IF op \in CastColumnOps THEN NumOf(arg.record, "debit")
    ELSE CASE op = "SantanderParser.parseRow" -> Santander_parseCurrency(arg.record.debit)
           [] op = "BanorteParser.parseRow" -> Banorte_parseCurrency(arg.record.withdrawals)
           [] op = "BanorteParser.parseRecord" -> Banorte_parseMoney(arg.record["Retiros"])
           [] op = "HsbcParser.parseRow" -> Hsbc_parseCurrency(arg.record.debitAmount)
           [] op = "BanBajioParser(positional).parseRow" ->
                  BanBajioPositional_parseNumber(arg.record[7])
           [] op = "BanBajioParser(line).parseLine" ->
                  BanBajioLine_parseMoney(BanBajio_splitCsvWithLimit(arg.line, BanBajioLineLimit)[6])

\* the numeric value of the amount field of the fixed-width line that was parsed
RowAmountField == Scotiabank_parseNumber(Substring(arg.line, 46, 63))

\* a row operation has returned a transaction
RowReturnedTx == pc = "done" /\ IsTx(ret)

\* C1: in every transaction returned by a delimited or header-driven parser,
\* amount is the credit value when that is non-zero and minus the debit value
\* otherwise, and type is "credit" exactly when the credit value is non-zero
C1_SignConvention ==
    (RowReturnedTx /\ op \in CreditColumnOps) =>
        /\ ret.tx.amount = (IF RowCredit # 0 THEN RowCredit ELSE 0 - RowDebit)
        /\ ret.tx.type = (IF RowCredit # 0 THEN "credit" ELSE "debit")

\* a Santander row with both columns non-zero came back as a credit of the
\* credit value
C1_Witness ==
    /\ RowReturnedTx
    /\ op = "SantanderParser.parseRow"
    /\ RowCredit # 0
    /\ RowDebit # 0
    /\ ret.tx.type = "credit"
    /\ ret.tx.amount = RowCredit

\* C2 as stated: in every transaction returned by any parser, whatever the
\* numeric cell values, negative ones included, type "credit" implies
\* amount > 0 and type "debit" implies amount <= 0
C2_CreditPositiveDebitNonPositive ==
    RowReturnedTx =>
        /\ ret.tx.type = "credit" => ret.tx.amount > 0
        /\ ret.tx.type = "debit" => ret.tx.amount <= 0

\* C2 amended: when the credit and debit values of the row are not negative,
\* type "credit" implies amount > 0 and type "debit" implies amount <= 0 in
\* the parsers that read a credit column; in the Scotiabank parser, when the
\* amount field is not negative, type "credit" implies amount >= 0 and type
\* "debit" implies amount <= 0
C2_SignOfNonNegativeCells ==
    /\ (RowReturnedTx /\ op \in CreditColumnOps /\ RowCredit >= 0 /\ RowDebit >= 0) =>
          /\ ret.tx.type = "credit" => ret.tx.amount > 0
          /\ ret.tx.type = "debit" => ret.tx.amount <= 0
    /\ (RowReturnedTx /\ op = "ScotiabankParser.parseRow" /\ RowAmountField >= 0) =>
          /\ ret.tx.type = "credit" => ret.tx.amount >= 0
          /\ ret.tx.type = "debit" => ret.tx.amount <= 0

\* a Scotiabank line with a positive amount field and a debit flag came back
\* as a debit of the negated amount
C2_Witness ==
    /\ RowReturnedTx
    /\ op = "ScotiabankParser.parseRow"
    /\ RowAmountField > 0
    /\ ret.tx.type = "debit"
    /\ ret.tx.amount = 0 - RowAmountField

-----------------------------------------------------------------------------
(* csv.parse and Papa.parse, for text without quote characters whose lines are
   empty or hold a character that is no white space *)

\* the fields of one line: cut at the delimiter, each field trimmed (trim: true)
CsvFields(line, delimiter) ==
    LET cells == Split(line, delimiter) IN [i \in 1..Len(cells) |-> Trim(cells[i])]

\* a line that is a record (skip_empty_lines: true, skipEmptyLines: true)
CsvIsRecordLine(line) == line # ""

\* the rows of the text, a sequence of fields for every line that is not empty
CsvRows(text, delimiter) ==
    LET full == SelectSeq(SplitLines(text), CsvIsRecordLine)
    IN [i \in 1..Len(full) |-> CsvFields(full[i], delimiter)]

\* the record of a row under the column names: with fewer fields than names the
\* last names are missing, with more fields than names the last fields are
\* left out; a name given twice keeps its last field
CsvRecord(columns, fields) ==
    LET n == Min(Len(columns), Len(fields))
    IN [k \in {columns[i] : i \in 1..n} |->
           fields[CHOOSE i \in 1..n : columns[i] = k /\ \A j \in 1..n : columns[j] = k => j <= i]]

\* without relax_column_count, a row with another number of fields than the
\* header row makes csv.parse raise CSV_RECORD_INCONSISTENT_COLUMNS
CsvInconsistent(rows) == \E i \in 2..Len(rows) : Len(rows[i]) # Len(rows[1])

\* parseInt: leading white space, a sign, digits; NaN (nan) when no digit is read
ParseInt(str) ==
    LET s == TrimStart(str)
        neg == Len(s) > 0 /\ At(s, 1) = "-"
        p == IF Len(s) > 0 /\ At(s, 1) \in {"-", "+"} THEN 2 ELSE 1
        n == DigitRun(s, p)
        mag == DigitsValue(s, p, n) * 100
    IN [nan |-> n = 0, v |-> IF neg THEN 0 - mag ELSE mag]

\* rows.map(row => parse of the row).filter(Boolean), every row parsed
RECURSIVE KeepTransactions(_)
KeepTransactions(results) ==
    IF Len(results) = 0 THEN <<>>
    ELSE (IF IsTx(results[1]) THEN <<results[1].tx>> ELSE <<>>) \o KeepTransactions(Tail(results))

\* the parse of some row raised
AnyThrew(results) == \E i \in 1..Len(results) : results[i].threw

\* the map inside try { } catch { return [] }
MapCaught(results) == IF AnyThrew(results) THEN Ok(<<>>) ELSE Ok(KeepTransactions(results))

\* the map outside any try
MapUncaught(results) == IF AnyThrew(results) THEN Throw ELSE Ok(KeepTransactions(results))

-----------------------------------------------------------------------------
(* parse of the parsers that look for a header line *)

BanregioHeader == "Fecha,Descripción,Referencia,Cargo,Abonos,Saldo,Clasificación"

BanregioInfoLines == 15

\* line.split('CUENTA:')[1]?.split(',')[0]?.trim() || ''
Banregio_accountOfLine(line) == Trim(Split(Split(line, "CUENTA:")[2], ",")[1])

\* BanregioParser._extractAccountInfo(lines).accountNumber
RECURSIVE Banregio_accountNumber(_, _, _)
Banregio_accountNumber(ls, i, found) ==
    IF i > Min(Len(ls), BanregioInfoLines) THEN found
    ELSE Banregio_accountNumber(ls, i + 1,
            IF Includes(ls[i], "CUENTA:") THEN Banregio_accountOfLine(ls[i]) ELSE found)

\* a search that takes the whole file for data when it finds no header line
Banregio_dataStartIndex_fromTop(ls) ==
    LET hs == {i \in 1..Len(ls) : StartsWith(ls[i], BanregioHeader)}
    IN IF hs = {} THEN 1 ELSE Least(hs) + 1

\* the search of parse for the header line: the position of the line after the
\* first one that starts with the header literal, -1 when none does
Banregio_dataStartIndex(ls) ==
    LET hs == {i \in 1..Len(ls) : StartsWith(ls[i], BanregioHeader)}
    IN IF hs = {} THEN 0 - 1 ELSE Least(hs) + 1

\* the filter of parse on the lines after the header
Banregio_isTransactionLine(line) ==
    /\ line # ""
    /\ ~Includes(line, "Saldo Inicial")
    /\ ~Includes(line, "Estado de Cuenta")
    /\ Includes(line, ",")

\* the cast callback
Banregio_cast(record) ==
    [k \in DOMAIN record |->
        IF k \in CastColumns THEN Banregio_parseCurrency(record[k]) ELSE record[k]]

\* the records that csv.parse makes of the lines from dataStartIndex on
Banregio_records(ls, dataStartIndex) ==
    LET transactionLines ==
            SelectSeq(SubSeq(ls, dataStartIndex, Len(ls)), Banregio_isTransactionLine)
        rows == CsvRows(Join(transactionLines, "\n"), ",")
    IN [i \in 1..Len(rows) |-> Banregio_cast(CsvRecord(BanregioKeys, rows[i]))]

\* BanregioParser.parse, first revision
BanregioV1_parse(fileContent) ==
    LET ls == TrimmedLines(fileContent)
        dataStartIndex == Banregio_dataStartIndex(ls)
    IN IF dataStartIndex = 0 - 1 THEN Ok(<<>>)
       ELSE LET recs == Banregio_records(ls, dataStartIndex)
                accountNumber == OrElse(Banregio_accountNumber(ls, 1, ""), Null)
            IN MapCaught([i \in 1..Len(recs) |->
                             BanregioV1_parseRow(recs[i], accountNumber)])

\* BanregioParser.parse; extractedData is what _extractFromDescription returns
\* for the descriptions of the file
Banregio_parse(fileContent, extractedData) ==
    LET ls == TrimmedLines(fileContent)
        dataStartIndex == Banregio_dataStartIndex(ls)
    IN IF dataStartIndex = 0 - 1 THEN Ok(<<>>)
       ELSE LET recs == Banregio_records(ls, dataStartIndex)
                accountNumber == OrElse(Banregio_accountNumber(ls, 1, ""), Null)
            IN MapCaught([i \in 1..Len(recs) |->
                             Banregio_parseRow(recs[i], accountNumber, extractedData)])

BanBajioHeader == "#,Fecha Movimiento,Hora,Recibo,Descripción,Cargos,Abonos,Saldo"

\* BanBajioParser._extractAccountInfo(firstLine).accountNumber
BanBajio_accountNumber(firstLine) ==
    LET parts == Split(firstLine, ",")
    IN IF firstLine # "" /\ Len(parts) >= 2 THEN Trim(parts[2]) ELSE ""

\* the filter of parse on the lines after the header
BanBajio_isTransactionLine(line) ==
    line # "" /\ Includes(line, ",") /\ ~ParseInt(Split(line, ",")[1]).nan

\* the cast callback
BanBajio_cast(record) ==
    [k \in DOMAIN record |->
        IF k \in CastColumns THEN BanBajio_parseNumber(record[k])
        ELSE IF k = "sequence" THEN OrZero(ParseInt(record[k]))
        ELSE record[k]]

\* BanBajioParser.parse of the header-marker revision; extractedData is what
\* _extractFromDescription returns for the descriptions of the file
BanBajio_parse(fileContent, extractedData) ==
    LET ls == TrimmedLines(fileContent)
        accountNumber == BanBajio_accountNumber(ls[1])
        hs == {i \in 1..Len(ls) : StartsWith(ls[i], BanBajioHeader)}
    IN IF hs = {} THEN Ok(<<>>)
       ELSE LET transactionLines ==
                    SelectSeq(SubSeq(ls, Least(hs) + 1, Len(ls)), BanBajio_isTransactionLine)
                rows == CsvRows(Join(transactionLines, "\n"), ",")
            IN MapCaught([i \in 1..Len(rows) |->
                             BanBajio_parseRow(BanBajio_cast(CsvRecord(BanBajioKeys, rows[i])),
                                               accountNumber, extractedData)])

-----------------------------------------------------------------------------
(* parse of the parsers that read every line *)

\* BbvaParser._mapHeaderToEnglish
Bbva_mapHeaderToEnglish(spanishHeader) ==
    CASE spanishHeader = "DÃ­a" -> "date"
      [] spanishHeader = "Concepto / Referencia" -> "description"
      [] spanishHeader = "Concepto" -> "description"
      [] spanishHeader = "cargo" -> "debit"
      [] spanishHeader = "Abono" -> "credit"
      [] spanishHeader = "Saldo" -> "balance"
      [] OTHER -> spanishHeader

\* the cast callback
Bbva_cast(record) ==
    [k \in DOMAIN record |->
        IF k \in CastColumns THEN Bbva_parseNumber(record[k]) ELSE record[k]]

\* BbvaParser.parse
Bbva_parse(fileContent) ==
    LET rows == CsvRows(fileContent, "\t")
    IN IF Len(rows) = 0 \/ CsvInconsistent(rows) THEN Ok(<<>>)
       ELSE LET columns == [i \in 1..Len(rows[1]) |-> Bbva_mapHeaderToEnglish(rows[1][i])]
            IN MapCaught([i \in 1..(Len(rows) - 1) |->
                             Bbva_parseRow(Bbva_cast(CsvRecord(columns, rows[i + 1])))])

\* AfirmeParser._mapHeaderToEnglish
Afirme_mapHeaderToEnglish(spanishHeader) ==
    CASE spanishHeader = "Concepto" -> "description"
      [] spanishHeader = "Fecha (DD/MM/AA)" -> "date"
      [] spanishHeader = "Referencia" -> "reference"
      [] spanishHeader = "Cargo" -> "debit"
      [] spanishHeader = "Abono" -> "credit"
      [] spanishHeader = "Saldo" -> "balance"
      [] spanishHeader = "Cuenta" -> "account"
      [] spanishHeader = "Código" -> "code"
      [] spanishHeader = "No. Secuencia" -> "sequence"
      [] OTHER -> spanishHeader

\* the cast callback
Afirme_cast(record) ==
    [k \in DOMAIN record |->
        IF k \in CastColumns THEN Afirme_parseNumber(record[k]) ELSE record[k]]

\* the words that the patterns of _extractFromDescription and _cleanDescription
\* need: in a description without them no pattern matches
AfirmeMinedWords == {"RASTREO", "REFERENCIA:", "HORA:", "RFC", "CONCEPTO", "CLABE"}

Afirme_isPlain(description) == \A w \in AfirmeMinedWords : ~Includes(description, w)

\* s.replace(/\s+/g, ' ') on the characters lo..hi of s
RECURSIVE CollapseWhiteSpace(_, _, _)
CollapseWhiteSpace(s, lo, hi) ==
    IF lo > hi THEN ""
    ELSE IF lo = hi
    THEN (IF At(s, lo) \notin WhiteSpace THEN At(s, lo)
          ELSE IF lo = 1 \/ At(s, lo - 1) \notin WhiteSpace THEN " " ELSE "")
    ELSE CollapseWhiteSpace(s, lo, (lo + hi) \div 2)
             \o CollapseWhiteSpace(s, (lo + hi) \div 2 + 1, hi)

\* AfirmeParser._cleanDescription of a description in which no pattern matches
Afirme_cleanDescription(description) ==
    LET t == Trim(description) IN Trim(CollapseWhiteSpace(t, 1, Len(t)))

\* AfirmeParser.parse of a file whose descriptions hold none of the mined words:
\* _extractFromDescription finds nothing and _buildActualDescription returns
\* _cleanDescription(description)
Afirme_parse(fileContent) ==
    LET rows == CsvRows(fileContent, ",")
    IN IF Len(rows) = 0 \/ CsvInconsistent(rows) THEN Ok(<<>>)
       ELSE LET columns == [i \in 1..Len(rows[1]) |-> Afirme_mapHeaderToEnglish(rows[1][i])]
                recordOf(i) == Afirme_cast(CsvRecord(columns, rows[i + 1]))
            IN MapCaught([i \in 1..(Len(rows) - 1) |->
                             Afirme_parseRow(recordOf(i), NoExtraction,
                                 Afirme_cleanDescription(StrOf(recordOf(i), "description")))])

\* BanorteParser._mapHeaderToEnglish
Banorte_mapHeaderToEnglish(spanishHeader) ==
    CASE spanishHeader = "Cuenta" -> "account"
      [] spanishHeader = "Fecha De Operación" -> "operationDate"
      [] spanishHeader = "Fecha" -> "date"
      [] spanishHeader = "Referencia" -> "reference"
      [] spanishHeader = "Descripción" -> "description"
      [] spanishHeader = "Cod. Transac" -> "transactionCode"
      [] spanishHeader = "Sucursal" -> "branch"
      [] spanishHeader = "Depósitos" -> "deposits"
      [] spanishHeader = "Retiros" -> "withdrawals"
      [] spanishHeader = "Saldo" -> "balance"
      [] spanishHeader = "Movimiento" -> "movement"
      [] spanishHeader = "Descripción Detallada" -> "detailedDescription"
      [] spanishHeader = "Cheque" -> "check"
      [] OTHER -> spanishHeader

\* BanorteParser._isHeader
Banorte_isHeader(line) ==
    Includes(line, "Cuenta") /\ Includes(line, "Fecha") /\ Includes(line, "Descripción")

\* the filter of parse
Banorte_isDataLine(line) == line # "" /\ ~Banorte_isHeader(line)

\* englishHeaders.forEach((header, index) => record[header] = columns[index] || '')
Banorte_record(englishHeaders, columns) ==
    LET n == Len(englishHeaders)
        last(k) == CHOOSE i \in 1..n :
                       englishHeaders[i] = k /\ \A j \in 1..n : englishHeaders[j] = k => j <= i
    IN [k \in {englishHeaders[i] : i \in 1..n} |->
           IF last(k) <= Len(columns) THEN columns[last(k)] ELSE ""]

\* BanorteParser.parse of a file without a 'Descripción Detallada' column, for
\* which _extractFromDetailedDescription returns its empty result
Banorte_parse(fileContent) ==
    LET ls == SelectSeq(TrimmedLines(fileContent), Banorte_isDataLine)
        firstLine == Trim(SplitLines(fileContent)[1])
        englishHeaders ==
            LET spanishHeaders == CsvFields(firstLine, "|")
            IN [i \in 1..Len(spanishHeaders) |-> Banorte_mapHeaderToEnglish(spanishHeaders[i])]
    IN IF Len(ls) = 0 THEN Ok(<<>>)
       ELSE MapUncaught([i \in 1..Len(ls) |->
                Banorte_parseRow(Banorte_record(englishHeaders, CsvFields(ls[i], "|")),
                                 NoExtraction)])

\* Papa.parse(fileContent, {delimiter, header: true, skipEmptyLines: true, ...}).data
Papa_data(fileContent, delimiter) ==
    LET rows == CsvRows(fileContent, delimiter)
    IN [i \in 1..(Len(rows) - 1) |-> CsvRecord(rows[1], rows[i + 1])]

\* BanorteParser.parse of the revision that reads the file with Papa
BanortePapa_parse(fileContent) ==
    LET data == Papa_data(fileContent, "|")
    IN MapUncaught([i \in 1..Len(data) |-> Banorte_parseRecord(data[i])])

\* ScotiabankParser._looksLikeTransaction, after the test for an empty line
Scotiabank_looksLikeTransaction(line) == line # "" /\ StartsWith(line, "CHQMXN")

\* ScotiabankParser.parse; extracted is what the SPEI miners return for the
\* SPEI lines of the file
Scotiabank_parse(fileContent, extracted) ==
    LET ls == SelectSeq(TrimmedLines(fileContent), Scotiabank_looksLikeTransaction)
    IN Ok(KeepTransactions([i \in 1..Len(ls) |-> Scotiabank_parseRow(ls[i], extracted)]))

\* BanBajioParser.parse of the line revision: the first two lines that are not
\* empty are skipped
BanBajioLine_parse(fileContent) ==
    LET ls == SelectSeq(TrimmedLines(fileContent), CsvIsRecordLine)
        dataLines == SubSeq(ls, 3, Len(ls))
    IN MapUncaught([i \in 1..Len(dataLines) |-> BanBajio_parseLine(dataLines[i])])

-----------------------------------------------------------------------------
(* parse, called once on a file of lines drawn from a pool *)

\* every file of at most MaxLines lines of the pool, under either line ending
FilesOf(pool) == {Join(doc, nl) : doc \in DocsOf(pool, MaxLines) \ {<<>>}, nl \in LineEndings}

BanregioLinePool ==
    {BanregioHeader,
     "01/03/2024,PAGO TIENDA,REF_1,0.00,500.00,1500.00,A",
     "01032024,RETIRO EN CAJERO,REF_2,50.00,0.00,1450.00,B",
     "02/03/2024,,REF_3,10.00,,1440.00",
     "CUENTA: 123456789, CLABE: 058000000000000001"}

BanBajioLinePool ==
    {BanBajioHeader,
     "  " \o BanBajioHeader,
     "EMPRESA SA DE CV,0123456789",
     "1,28-Nov-2024,09:33:24,R1,PAGO TIENDA,0.00,500.00,1500.00",
     "2,20241128,09:40:00,R2,,50.00,0.00,1450.00"}

BbvaLinePool ==
    {"DÃ­a\tConcepto / Referencia\tcargo\tAbono\tSaldo",
     "01-03-2024\tPAGO /1234567890\t\t500.00\t1,500.00",
     "01/03/2024\tRETIRO\t50.00\t\t1,450.00",
     "02-03-2024\t\t10.00\t\t1,440.00",
     "Saldo final\t1,440.00"}

AfirmeLinePool ==
    {"Concepto,Fecha (DD/MM/AA),Referencia,Cargo,Abono,Saldo,Cuenta",
     "PAGO TARJETA,01/03/24,REF123,0,500.00,1500.00,ACC001",
     "RETIRO  EN CAJERO,010324,REF124,50.00,0,1450.00,ACC001",
     ",02/03/24,REF125,10.00,0,1440.00,ACC001",
     ""}

BanorteLinePool ==
    {"Cuenta|Fecha|Referencia|Descripción|Depósitos|Retiros|Saldo",
     "0123456789|01/03/2024|REF1|PAGO TIENDA|$500.00||$1,500.00",
     "0123456789|01-03-2024|REF2|RETIRO||$50.00|$1,450.00",
     "0123456789|02/03/2024|REF3|||$10.00|$1,440.00",
     ""}

BanortePapaLinePool ==
    {"Cuenta|Fecha De Operación|Referencia|Descripción|Depósitos|Retiros|Saldo",
     "0123456789|01/03/2024|REF1|PAGO TIENDA|$500.00||$1,500.00",
     "0123456789|01-03-2024|REF2|RETIRO||$50.00|$1,450.00",
     "0123456789|02/03/2024|REF3|||$10.00|$1,440.00",
     "|03/03/2024|REF4|SIN CUENTA"}

ScotiabankFileLinePool ==
    {"CHQMXN" \o "00000000000123456789" \o "2024/03/01" \o "0000012345" \o "00000000001500.00"
        \o "ABONO" \o "00000000010000.00" \o PadEnd("", 50) \o PadEnd("PAGO NOMINA", 30),
     "CHQMXN" \o "00000000000123456789" \o "2024/03/02" \o "0000012346" \o "00000000000100.00"
        \o "CARGO" \o "00000000009900.00",
     "CHQMXN",
     "Saldo final del periodo",
     ""}

BanBajioFileLinePool ==
    {"EMPRESA SA DE CV,0123456789",
     "#,Fecha Movimiento,Hora,Recibo,Descripción,Cargos,Abonos,Saldo",
     "1,28-Nov-2024,09:33:24,R1,PAGO TIENDA,0.00,500.00,1500.00",
     "2,28-Nov-2024,09:40:00,R2,,50.00,0.00,1450.00",
     "3,,,R3,COMISION,10.00,0.00,1440.00"}

ParseDone(name, input, result) ==
    /\ op' = name
    /\ arg' = input
    /\ ret' = result
    /\ pc' = "done"
    /\ KeepScan

CallBanregioV1Parse ==
    /\ pc = "idle"
    /\ \E fileContent \in FilesOf(BanregioLinePool) :
          ParseDone("BanregioParser(v1).parse", fileContent, BanregioV1_parse(fileContent))

CallBanregioParse ==
    /\ pc = "idle"
    /\ \E fileContent \in FilesOf(BanregioLinePool), extractedData \in ExtractedPool :
          ParseDone("BanregioParser.parse",
                    [fileContent |-> fileContent, extractedData |-> extractedData],
                    Banregio_parse(fileContent, extractedData))

CallBanBajioParse ==
    /\ pc = "idle"
    /\ \E fileContent \in FilesOf(BanBajioLinePool), extractedData \in ExtractedPool :
          ParseDone("BanBajioParser.parse",
                    [fileContent |-> fileContent, extractedData |-> extractedData],
                    BanBajio_parse(fileContent, extractedData))

CallBbvaParse ==
    /\ pc = "idle"
    /\ \E fileContent \in FilesOf(BbvaLinePool) :
          ParseDone("BbvaParser.parse", fileContent, Bbva_parse(fileContent))

CallAfirmeParse ==
    /\ pc = "idle"
    /\ \E fileContent \in FilesOf(AfirmeLinePool) :
          /\ Afirme_isPlain(fileContent)
          /\ ParseDone("AfirmeParser.parse", fileContent, Afirme_parse(fileContent))

CallBanorteParse ==
    /\ pc = "idle"
    /\ \E fileContent \in FilesOf(BanorteLinePool) :
          /\ ~Includes(fileContent, "Descripción Detallada")
          /\ ParseDone("BanorteParser.parse", fileContent, Banorte_parse(fileContent))

CallBanortePapaParse ==
    /\ pc = "idle"
    /\ \E fileContent \in FilesOf(BanortePapaLinePool) :
          ParseDone("BanorteParser(Papa).parse", fileContent, BanortePapa_parse(fileContent))

CallScotiabankParse ==
    /\ pc = "idle"
    /\ \E fileContent \in FilesOf(ScotiabankFileLinePool) :
          /\ ~Scotiabank_isSpei(fileContent)
          /\ ParseDone("ScotiabankParser.parse", fileContent,
                       Scotiabank_parse(fileContent, NoExtraction))

CallBanBajioLineParse ==
    /\ pc = "idle"
    /\ \E fileContent \in FilesOf(BanBajioFileLinePool) :
          ParseDone("BanBajioParser(line).parse", fileContent, BanBajioLine_parse(fileContent))

NextParse ==
    \/ SantanderParseStart
    \/ SantanderParseLine
    \/ SantanderParseReturn
    \/ CallBanregioV1Parse
    \/ CallBanregioParse
    \/ CallBanBajioParse
    \/ CallBbvaParse
    \/ CallAfirmeParse
    \/ CallBanorteParse
    \/ CallBanortePapaParse
    \/ CallScotiabankParse
    \/ CallBanBajioLineParse

SpecParse == InitIdle /\ [][NextParse]_vars

-----------------------------------------------------------------------------
(* What parse returns *)

AllParseOps ==
    {"SantanderParser.parse", "BanregioParser(v1).parse", "BanregioParser.parse",
     "BanBajioParser.parse", "BbvaParser.parse", "AfirmeParser.parse", "BanorteParser.parse",
     "BanorteParser(Papa).parse", "ScotiabankParser.parse", "BanBajioParser(line).parse"}

\* a call of parse has ended
ParseReturned == pc = "done" /\ op \in AllParseOps

\* the text of the file that was parsed
FileContentOf == IF op \in {"BanregioParser.parse", "BanBajioParser.parse"}
                 THEN arg.fileContent ELSE arg

\* the lines of the pools whose date token lacks the separator of the bank
BadDateLines ==
    {"01032024,RETIRO EN CAJERO,REF_2,50.00,0.00,1450.00,B",
     "01/03/2024\tRETIRO\t50.00\t\t1,450.00",
     "RETIRO  EN CAJERO,010324,REF124,50.00,0,1450.00,ACC001",
     "0123456789|01-03-2024|REF2|RETIRO||$50.00|$1,450.00"}

\* the lines of the pools that are rows with every field in the bank's format
GoodLines ==
    {"01/03/2024,PAGO TIENDA,REF_1,0.00,500.00,1500.00,A",
     "01-03-2024\tPAGO /1234567890\t\t500.00\t1,500.00",
     "PAGO TARJETA,01/03/24,REF123,0,500.00,1500.00,ACC001",
     "0123456789|01/03/2024|REF1|PAGO TIENDA|$500.00||$1,500.00",
     "1,28-Nov-2024,09:33:24,R1,PAGO TIENDA,0.00,500.00,1500.00",
     "'01032024','10:15','0001','DEPOSITO','0.00','500.00','1,500.00','REF1','NOMINA'"}

\* the lines of the pools that are rows with an empty date or an empty description
EmptyFieldLines ==
    {"02/03/2024,,REF_3,10.00,,1440.00",
     "2,20241128,09:40:00,R2,,50.00,0.00,1450.00",
     "02-03-2024\t\t10.00\t\t1,440.00",
     ",02/03/24,REF125,10.00,0,1440.00,ACC001",
     "0123456789|02/03/2024|REF3|||$10.00|$1,440.00",
     "CHQMXN",
     "2,28-Nov-2024,09:40:00,R2,,50.00,0.00,1450.00",
     "3,,,R3,COMISION,10.00,0.00,1440.00"}

\* after its first line the file holds only well-formed rows, rows with an empty
\* date or description, and empty lines
OnlyGoodAndEmptyFieldRows ==
    LET ls == SplitLines(FileContentOf)
    IN \A i \in 2..Len(ls) : ls[i] \in GoodLines \cup EmptyFieldLines \cup {""}

\* the header lines of the files of these parsers
ColumnHeaderLines ==
    {BanregioHeader,
     "DÃ­a\tConcepto / Referencia\tcargo\tAbono\tSaldo",
     "Concepto,Fecha (DD/MM/AA),Referencia,Cargo,Abono,Saldo,Cuenta",
     "Cuenta|Fecha|Referencia|Descripción|Depósitos|Retiros|Saldo",
     "Cuenta|Fecha De Operación|Referencia|Descripción|Depósitos|Retiros|Saldo"}

\* C3: every transaction that parse returns has a non-empty date and a
\* non-empty description, and a row in which either is empty makes parse
\* raise no error
C3_ReturnedRowsHaveDateAndDescription ==
    ParseReturned =>
        /\ ~ret.threw =>
              \A i \in 1..Len(ret.value) :
                  Truthy(ret.value[i].date) /\ Truthy(ret.value[i].description)
        /\ OnlyGoodAndEmptyFieldRows => ~ret.threw

DateSeparatorOps ==
    {"AfirmeParser.parse", "BanregioParser(v1).parse", "BanregioParser.parse",
     "BanorteParser.parse", "BanorteParser(Papa).parse", "BbvaParser.parse"}

\* the file is a header line followed by well-formed rows and rows with a
\* malformed date token, at least one of each
GoodAndBadDateRows ==
    LET ls == SplitLines(FileContentOf)
    IN /\ ls[1] \in ColumnHeaderLines
       /\ \A i \in 2..Len(ls) : ls[i] \in GoodLines \cup BadDateLines
       /\ \E i \in 2..Len(ls) : ls[i] \in GoodLines
       /\ \E i \in 2..Len(ls) : ls[i] \in BadDateLines

\* C6: on a file with at least one well-formed row and one row whose date
\* token is malformed, parse of the Afirme, Banregio, Banorte and BBVA parsers
\* does not raise and returns the transactions of the well-formed rows
C6_MalformedDateRowStaysLocal ==
    (ParseReturned /\ op \in DateSeparatorOps /\ GoodAndBadDateRows) =>
        /\ ~ret.threw
        /\ LET ls == SplitLines(FileContentOf)
           IN Len(ret.value) >= Cardinality({i \in 2..Len(ls) : ls[i] \in GoodLines})

HeaderMarkerOps ==
    {"BanregioParser(v1).parse", "BanregioParser.parse", "BanBajioParser.parse",
     "SantanderParser.parse"}

\* the header literal that parse looks for
HeaderLiteralOf(name) ==
    CASE name \in {"BanregioParser(v1).parse", "BanregioParser.parse"} -> BanregioHeader
      [] name = "BanBajioParser.parse" -> BanBajioHeader
      [] name = "SantanderParser.parse" -> SantanderHeader

\* no line of the file, trimmed as parse trims it, starts with the header literal
NoHeaderLine ==
    LET ls == TrimmedLines(FileContentOf)
    IN \A i \in 1..Len(ls) : ~StartsWith(ls[i], HeaderLiteralOf(op))

\* C8: on a file in which no line starts with the expected header literal,
\* parse of the Banregio, BanBajio (header revision) and Santander parsers
\* returns an empty list and does not raise
C8_NoHeaderNoTransactions ==
    (ParseReturned /\ op \in HeaderMarkerOps /\ NoHeaderLine) => ret = Ok(<<>>)

\* a Banregio file with a well-formed row and no header line came back empty
C8_Witness ==
    /\ ParseReturned
    /\ op = "BanregioParser.parse"
    /\ NoHeaderLine
    /\ Includes(FileContentOf, "01/03/2024,PAGO TIENDA,REF_1,0.00,500.00,1500.00,A")
    /\ ret = Ok(<<>>)

-----------------------------------------------------------------------------
(* What the returned Transaction keeps of the parameters it was built from *)

\* the property k of a returned transaction, undefined when the object has no
\* such property
TxProperty(tx, k) == IF k \in DOMAIN tx THEN tx[k] ELSE Undefined

\* C11: every transaction a parser returns has a raw property that holds a
\* serialized form of the row or line it was built from; the property is never
\* absent, null or empty
C11_RawRetained ==
    RowReturnedTx => Truthy(TxProperty(ret.tx, "raw"))

\* the row operations that hand mined time, rfc and concept values to the
\* Transaction constructor
MinedFieldOps == {"BanorteParser.parseRow", "BanBajioParser.parseRow"}

\* C12: when the miner obtained time, rfc and concept values for a row, or the
\* row has a time column, the transaction returned for the row exposes exactly
\* those values
C12_MinedFieldsExposed ==
    /\ (RowReturnedTx /\ op \in MinedFieldOps /\ arg.extractedData # NoExtraction) =>
          /\ TxProperty(ret.tx, "time") = arg.extractedData.time
          /\ TxProperty(ret.tx, "rfc") = arg.extractedData.rfc
          /\ TxProperty(ret.tx, "concept") = arg.extractedData.concept
    /\ (RowReturnedTx /\ op = "SantanderParser.parseRow") =>
          TxProperty(ret.tx, "time") = arg.record.time

-----------------------------------------------------------------------------
(* The bundled build (dist/index.esm.mjs): its Transaction class and its
   AfirmeParser, which reads every line as a row *)

\* new Transaction(params) of the bundle: eleven names, no hour, extra = ''
BundledTransaction(params) ==
    [date |-> Field(params, "date"),
     type |-> Field(params, "type"),
     amount |-> Field(params, "amount"),
     balance |-> Field(params, "balance"),
     description |-> Field(params, "description"),
     reference |-> Field(params, "reference"),
     bank |-> Field(params, "bank"),
     accountNumber |-> Param(params, "accountNumber", Null),
     beneficiary |-> Param(params, "beneficiary", Null),
     trackingKey |-> Param(params, "trackingKey", Null),
     extra |-> Param(params, "extra", "")]

\* Number(year) > 70 for a year of decimal digits with an optional sign and
\* fraction; any other text, and undefined, convert to NaN, the empty string to 0
NumberOver70(year) ==
    IF year = Undefined THEN FALSE
    ELSE LET s == Trim(year)
             p == IF Len(s) > 0 /\ At(s, 1) \in {"-", "+"} THEN 2 ELSE 1
             n == DigitRun(s, p)
             m == IF p + n <= Len(s) /\ At(s, p + n) = "." THEN 1 + DigitRun(s, p + n + 1) ELSE 0
         IN /\ n + m > 0
            /\ p + n + m = Len(s) + 1
            /\ ParseFloat(s).v > 7000

\* AfirmeParser._formatDate of the bundle: DD/MM/YY, years above 70 in the 1900s
AfirmeBundled_formatDate(input) ==
    LET parts == Split(input, "/")
        day == Elem(parts, 1)
        month == Elem(parts, 2)
        year == Elem(parts, 3)
        fullYear == (IF NumberOver70(year) THEN "19" ELSE "20") \o Str(year)
    IN IF month = Undefined THEN Throw    \* month.padStart of undefined
       ELSE Ok(fullYear \o "-" \o PadStart2(month) \o "-" \o PadStart2(day))

\* AfirmeParser.parseRow of the bundle: the line cut at every comma
AfirmeBundled_parseRow(line) ==
    LET parts == Split(line, ",")
    IN IF Len(parts) < 7 THEN RowNull
       ELSE LET date == AfirmeBundled_formatDate(parts[2])
                debit == OrZero(ParseFloat(parts[4]))
                credit == OrZero(ParseFloat(parts[5]))
            IN IF date.threw THEN RowThrow
               ELSE RowTx(BundledTransaction(
                       [date |-> date.value,
                        type |-> IF credit # 0 THEN "credit" ELSE "debit",
                        amount |-> IF credit # 0 THEN credit ELSE 0 - debit,
                        balance |-> OrZero(ParseFloat(parts[6])),
                        reference |-> parts[3],
                        account |-> parts[7],
                        description |-> parts[1],
                        bank |-> BankLabel("Afirme"),
                        raw |-> line]))

\* the trimmed lines of a file that are not empty
NonEmptyLines(fileContent) == SelectSeq(TrimmedLines(fileContent), LAMBDA l : Len(l) > 0)

\* AfirmeParser.parse of the bundle: no header row, no try
AfirmeBundled_parse(fileContent) ==
    LET ls == NonEmptyLines(fileContent)
    IN MapUncaught([i \in 1..Len(ls) |-> AfirmeBundled_parseRow(ls[i])])

-----------------------------------------------------------------------------
(* AfirmeParser.parse on one 7-field row, alone or under the header row *)

AfirmeHeaderRow == "Concepto,Fecha (DD/MM/AA),Referencia,Cargo,Abono,Saldo,Cuenta"

\* rows description,date,reference,debit,credit,balance,account
AfirmeRowPool ==
    {Join(<<s, d, r, db, cr, "1500.00", "ACC001">>, ",") :
        s \in {"PAGO TARJETA", "COMISION"}, d \in {"01/03/24", "15/06/70", "31/12/99"},
        r \in {"REF123", ""}, db \in {"0", "250.00"}, cr \in {"0", "500.00"}}

\* a row alone, and the same row under the header row
AfirmeRowDocuments ==
    AfirmeRowPool \cup {AfirmeHeaderRow \o nl \o row : nl \in LineEndings, row \in AfirmeRowPool}

CallAfirmeParseRowDocument ==
    /\ pc = "idle"
    /\ \E fileContent \in AfirmeRowDocuments :
          ParseDone("AfirmeParser.parse", fileContent, Afirme_parse(fileContent))

CallAfirmeBundledParse ==
    /\ pc = "idle"
    /\ \E fileContent \in AfirmeRowDocuments :
          ParseDone("AfirmeParser(bundled).parse", fileContent, AfirmeBundled_parse(fileContent))

NextAfirme ==
    \/ CallAfirmeParseRowDocument
    \/ CallAfirmeBundledParse

SpecAfirme == InitIdle /\ [][NextAfirme]_vars

\* the document that was parsed is a single row of seven fields
SingleRowParsed ==
    /\ pc = "done"
    /\ op \in {"AfirmeParser.parse", "AfirmeParser(bundled).parse"}
    /\ Len(SplitLines(arg)) = 1
    /\ Len(Split(arg, ",")) = 7

\* C13: AfirmeParser.parse of a document whose single line is the row
\* description,date(DD/MM/YY),reference,debit,credit,balance,account returns
\* exactly one transaction, with date 20YY-MM-DD, type and amount by the sign
\* convention, the balance and reference of the row, the seventh field as
\* accountNumber and the first field as description
C13_AfirmeSingleRow ==
    SingleRowParsed =>
        LET f == Split(arg, ",")
            d == Split(f[2], "/")
            debit == OrZero(ParseFloat(f[4]))
            credit == OrZero(ParseFloat(f[5]))
        IN /\ ~ret.threw
           /\ Len(ret.value) = 1
           /\ ret.value[1].date = "20" \o d[3] \o "-" \o d[2] \o "-" \o d[1]
           /\ ret.value[1].type = (IF credit # 0 THEN "credit" ELSE "debit")
           /\ ret.value[1].amount = (IF credit # 0 THEN credit ELSE 0 - debit)
           /\ ret.value[1].balance = OrZero(ParseFloat(f[6]))
           /\ ret.value[1].reference = f[3]
           /\ ret.value[1].accountNumber = f[7]
           /\ ret.value[1].description = f[1]

-----------------------------------------------------------------------------
(* ScotiabankParser.parse, of the source and of the bundled build *)

\* ScotiabankParser.parse of the bundle: split at '\n' only, every trimmed line
\* longer than 100 characters becomes a transaction
ScotiabankBundled_parse(fileContent) ==
    LET ls == SelectSeq([i \in 1..Len(Split(fileContent, "\n")) |->
                            Trim(Split(fileContent, "\n")[i])],
                        LAMBDA l : Len(l) > 100)
    IN Ok([i \in 1..Len(ls) |->
             BundledTransaction(
                 [date |-> Substring(ls[i], 28, 36),
                  type |-> Substring(ls[i], 0, 3),
                  currency |-> Substring(ls[i], 3, 6),
                  reference |-> Null,
                  accountNumber |-> StripLeadingZeros(Substring(ls[i], 6, 26)),
                  description |-> "",
                  amount |-> 0,
                  balance |-> 0,
                  bank |-> BankLabel("Scotiabank"),
                  trackingKey |-> "",
                  beneficiary |-> "",
                  extra |-> ls[i]])])

\* a fixed-width line of 165 columns
ScotiabankLine(recordType, amount, operationType) ==
    recordType \o "00000000000123456789" \o "2024/03/01" \o "0000012345" \o amount
        \o operationType \o "00000000010000.00" \o PadEnd("", 50) \o PadEnd("PAGO NOMINA", 30)

ScotiabankWidthLinePool ==
    {ScotiabankLine("CHQMXN", "00000000001500.00", "ABONO"),
     ScotiabankLine("CHQMXN", "00000000000100.00", "CARGO"),
     "  " \o ScotiabankLine("CHQMXN", "00000000000250.50", "Abono"),
     ScotiabankLine("CHQUSD", "00000000001500.00", "ABONO"),
     "CHQMXN" \o "00000000000123456789" \o "2024/03/02" \o "0000012346" \o "00000000000100.00"
        \o "ABONO",
     "Saldo final del periodo",
     ""}

CallScotiabankParseWidth ==
    /\ pc = "idle"
    /\ \E fileContent \in FilesOf(ScotiabankWidthLinePool) :
          ParseDone("ScotiabankParser.parse", fileContent,
                    Scotiabank_parse(fileContent, NoExtraction))

CallScotiabankBundledParse ==
    /\ pc = "idle"
    /\ \E fileContent \in FilesOf(ScotiabankWidthLinePool) :
          ParseDone("ScotiabankParser(bundled).parse", fileContent,
                    ScotiabankBundled_parse(fileContent))

NextScotiabank ==
    \/ CallScotiabankParseWidth
    \/ CallScotiabankBundledParse

SpecScotiabank == InitIdle /\ [][NextScotiabank]_vars

ScotiabankParsed ==
    pc = "done" /\ op \in {"ScotiabankParser.parse", "ScotiabankParser(bundled).parse"}

\* the type the operation-type field of a line asks for
ScotiabankTypeOf(line) ==
    IF Includes(ToLowerCase(Substring(line, 63, 68)), "abono") THEN "credit" ELSE "debit"

\* the amount that belongs to that type
ScotiabankAmountOf(line) ==
    IF ScotiabankTypeOf(line) = "credit"
    THEN Scotiabank_parseNumber(Substring(line, 46, 63))
    ELSE 0 - Scotiabank_parseNumber(Substring(line, 46, 63))

\* C14: every transaction that ScotiabankParser.parse returns comes from a line
\* whose trimmed text begins with 'CHQMXN', and has type 'credit' and the parsed
\* amount when the operation-type field (columns 63-68) of that line carries
\* the credit flag, type 'debit' and the negated parsed amount otherwise
C14_ScotiabankTaggedLines ==
    ScotiabankParsed =>
        /\ ~ret.threw
        /\ \A i \in 1..Len(ret.value) :
              \E j \in 1..Len(TrimmedLines(arg)) :
                  LET line == TrimmedLines(arg)[j]
                  IN /\ StartsWith(line, "CHQMXN")
                     /\ ret.value[i].type = ScotiabankTypeOf(line)
                     /\ ret.value[i].amount = ScotiabankAmountOf(line)

-----------------------------------------------------------------------------
(* Regular-expression matching of the description miners *)

Letters == {UpperLetters[k] : k \in 1..26} \cup {LowerLetters[k] : k \in 1..26}
CapitalLetters == {UpperLetters[k] : k \in 1..26}

\* the greatest element of a non-empty set of integers
Greatest(S) == CHOOSE i \in S : \A j \in S : i >= j

\* the characters lo..hi of s exist and belong to the class cs
AllIn(s, lo, hi, cs) == hi <= Len(s) /\ \A j \in lo..hi : At(s, j) \in cs

\* the literal p stands at position i of s
LiteralAt(s, i, p) == i + Len(p) - 1 <= Len(s) /\ SubSeq(s, i, i + Len(p) - 1) = p

\* match[1].trim() of a match, null without a match
TrimOrNull(v) == IF v = Null THEN Null ELSE Trim(v)

\* /kw\s{minWs,}([^,]+),/ : the group runs to the next comma; when the white
\* space is followed by the comma, its last character is given back to the group
GroupToComma(s, kw, minWs) ==
    LET groupStart(i) ==
            LET p == i + Len(kw)
                w == RunEnd(s, p, WhiteSpace)
            IN IF w <= Len(s) /\ At(s, w) # "," /\ w - p >= minWs THEN w
               ELSE IF w > p /\ w - 1 - p >= minWs THEN w - 1
               ELSE 0
        comma(i) == RunEndOutside(s, groupStart(i), {","})
        starts == {i \in Occurrences(s, kw) : groupStart(i) # 0 /\ comma(i) <= Len(s)}
    IN IF starts = {} THEN Null
       ELSE SubSeq(s, groupStart(Least(starts)), comma(Least(starts)) - 1)

\* /kw\s*([^,\s]+)/
GroupToken(s, kw) ==
    LET groupStart(i) == RunEnd(s, i + Len(kw), WhiteSpace)
        starts == {i \in Occurrences(s, kw) :
                      groupStart(i) <= Len(s) /\ At(s, groupStart(i)) # ","}
    IN IF starts = {} THEN Null
       ELSE LET g == groupStart(Least(starts))
            IN SubSeq(s, g, RunEndOutside(s, g, WhiteSpace \cup {","}) - 1)

\* \d{2}:\d{2}:\d{2} at position i
TimeAt(s, i) ==
    /\ i + 7 <= Len(s)
    /\ \A j \in {0, 1, 3, 4, 6, 7} : IsDigit(At(s, i + j))
    /\ At(s, i + 2) = ":" /\ At(s, i + 5) = ":"

\* /kw\s*(\d{2}:\d{2}:\d{2})/
GroupTime(s, kw) ==
    LET groupStart(i) == RunEnd(s, i + Len(kw), WhiteSpace)
        starts == {i \in Occurrences(s, kw) : TimeAt(s, groupStart(i))}
    IN IF starts = {} THEN Null
       ELSE SubSeq(s, groupStart(Least(starts)), groupStart(Least(starts)) + 7)

RfcLetters == CapitalLetters \cup {"&", "Ñ"}

\* [0-9]{2}(0[1-9]|1[0-2])(0[1-9]|[12][0-9]|3[01])[A-Z0-9]{2}[0-9A] at position j
RfcTailAt(s, j) ==
    /\ j + 8 <= Len(s)
    /\ IsDigit(At(s, j)) /\ IsDigit(At(s, j + 1))
    /\ \/ At(s, j + 2) = "0" /\ At(s, j + 3) \in Digits \ {"0"}
       \/ At(s, j + 2) = "1" /\ At(s, j + 3) \in {"0", "1", "2"}
    /\ \/ At(s, j + 4) = "0" /\ At(s, j + 5) \in Digits \ {"0"}
       \/ At(s, j + 4) \in {"1", "2"} /\ IsDigit(At(s, j + 5))
       \/ At(s, j + 4) = "3" /\ At(s, j + 5) \in {"0", "1"}
    /\ At(s, j + 6) \in CapitalLetters \cup Digits
    /\ At(s, j + 7) \in CapitalLetters \cup Digits
    /\ At(s, j + 8) \in Digits \cup {"A"}

\* length of the match of [A-Z&Ñ]{3,4} and the tail at position i with the
\* literal after standing behind it: four letters are tried before three; 0
\* without a match
RfcLengthAt(s, i, after) ==
    IF AllIn(s, i, i + 3, RfcLetters) /\ RfcTailAt(s, i + 4) /\ LiteralAt(s, i + 13, after)
    THEN 13
    ELSE IF AllIn(s, i, i + 2, RfcLetters) /\ RfcTailAt(s, i + 3) /\ LiteralAt(s, i + 12, after)
    THEN 12
    ELSE 0

\* /kw\s{minWs,}(<rfc>)after/
GroupRfc(s, kw, minWs, after) ==
    LET groupStart(i) == RunEnd(s, i + Len(kw), WhiteSpace)
        starts == {i \in Occurrences(s, kw) :
                      /\ groupStart(i) - (i + Len(kw)) >= minWs
                      /\ RfcLengthAt(s, groupStart(i), after) # 0}
    IN IF starts = {} THEN Null
       ELSE LET g == groupStart(Least(starts))
            IN SubSeq(s, g, g + RfcLengthAt(s, g, after) - 1)

\* /^([A-Za-z][cls]+?)/ followed by what ahead accepts: the shortest such prefix
LazyPrefix(s, cls, ahead(_, _)) ==
    LET ends == {k \in 2..Len(s) :
                    At(s, 1) \in Letters /\ AllIn(s, 2, k, cls) /\ ahead(s, k)}
    IN IF ends = {} THEN Null ELSE SubSeq(s, 1, Least(ends))

\* (?=\s+\d|$) behind position k
AheadDigit(s, k) ==
    \/ k = Len(s)
    \/ /\ k < Len(s)
       /\ At(s, k + 1) \in WhiteSpace
       /\ RunEnd(s, k + 1, WhiteSpace) <= Len(s)
       /\ IsDigit(At(s, RunEnd(s, k + 1, WhiteSpace)))

\* (?=\s+\d{6,8}\s|$) behind position k
AheadTrackingNumber(s, k) ==
    \/ k = Len(s)
    \/ /\ k < Len(s)
       /\ At(s, k + 1) \in WhiteSpace
       /\ LET w == RunEnd(s, k + 1, WhiteSpace)
          IN \E n \in 6..8 : /\ AllIn(s, w, w + n - 1, Digits)
                             /\ w + n <= Len(s)
                             /\ At(s, w + n) \in WhiteSpace

-----------------------------------------------------------------------------
(* HsbcParser: the description miner *)

\* description.replace(/\s+SPEI$/, '')
Hsbc_removeTrailingSpei(description) ==
    LET n == Len(description)
    IN IF n >= 5 /\ SubSeq(description, n - 3, n) = "SPEI" /\ At(description, n - 4) \in WhiteSpace
       THEN SubSeq(description, 1,
                   Greatest({i \in 0..(n - 5) : i = 0 \/ At(description, i) \notin WhiteSpace}))
       ELSE description

\* cleanDescription.match(/(\d{6,8})(?:\s|$)/)[1], null without a match
Hsbc_trackingNumber(s) ==
    LET lengthAt(i) ==
            LET ns == {n \in 6..8 : /\ AllIn(s, i, i + n - 1, Digits)
                                    /\ (i + n > Len(s) \/ At(s, i + n) \in WhiteSpace)}
            IN IF ns = {} THEN 0 ELSE Greatest(ns)
        starts == {i \in 1..Len(s) : lengthAt(i) # 0}
    IN IF starts = {} THEN Null
       ELSE SubSeq(s, Least(starts), Least(starts) + lengthAt(Least(starts)) - 1)

\* HsbcParser._extractSpeiTransaction
Hsbc_extractSpeiTransaction(description) ==
    LET cleanDescription == Trim(Hsbc_removeTrailingSpei(description))
        beneficiaryMatch ==
            LazyPrefix(cleanDescription, Letters \cup WhiteSpace \cup {".", "-"}, AheadDigit)
        conceptMatch ==
            LazyPrefix(cleanDescription, Letters \cup Digits \cup WhiteSpace \cup {".", "-"},
                       AheadTrackingNumber)
    IN [beneficiary |-> TrimOrNull(beneficiaryMatch),
        trackingKey |-> Hsbc_trackingNumber(cleanDescription),
        concept |-> TrimOrNull(conceptMatch),
        actualDescription |-> IF conceptMatch # Null THEN Trim(conceptMatch)
                              ELSE Trim(description)]

\* HsbcParser._extractBpiTransfer: the account number it finds goes into a
\* trackingKey property that _extractFromDescription does not copy
Hsbc_extractBpiTransfer(description) ==
    [beneficiary |-> Null,
     concept |-> "Transferencia BPI",
     actualDescription |-> "Transferencia BPI"]

\* HsbcParser._extractGenericTransaction
Hsbc_extractGenericTransaction(description) ==
    LET conceptMatch ==
            LazyPrefix(description, Letters \cup WhiteSpace \cup {".", "-"}, AheadDigit)
    IN [beneficiary |-> Null,
        concept |-> TrimOrNull(conceptMatch),
        actualDescription |-> IF conceptMatch # Null THEN Trim(conceptMatch)
                              ELSE Trim(description)]

\* HsbcParser._extractFromDescription of a description that is a string
Hsbc_extractFromDescription(description) ==
    IF Includes(description, "SPEI")
    THEN [beneficiary |-> Hsbc_extractSpeiTransaction(description).beneficiary,
          trackingKey |-> Hsbc_extractSpeiTransaction(description).trackingKey,
          concept |-> Hsbc_extractSpeiTransaction(description).concept,
          actualDescription |-> Hsbc_extractSpeiTransaction(description).actualDescription,
          rawDescription |-> description]
    ELSE IF Includes(description, "TRANSFERENCIA BPI")
    THEN [beneficiary |-> Hsbc_extractBpiTransfer(description).beneficiary,
          trackingKey |-> Null,
          concept |-> Hsbc_extractBpiTransfer(description).concept,
          actualDescription |-> Hsbc_extractBpiTransfer(description).actualDescription,
          rawDescription |-> description]
    ELSE [beneficiary |-> Hsbc_extractGenericTransaction(description).beneficiary,
          trackingKey |-> Null,
          concept |-> Hsbc_extractGenericTransaction(description).concept,
          actualDescription |-> Hsbc_extractGenericTransaction(description).actualDescription,
          rawDescription |-> description]

-----------------------------------------------------------------------------
(* BanorteParser: the miner of the detailed description *)

\* parts.join(' - ') of the concept and the beneficiary that are truthy, behind
\* the label; the label alone when neither is
Banorte_actualDescription(label, concept, beneficiary) ==
    IF Truthy(concept) /\ Truthy(beneficiary)
    THEN label \o ": " \o concept \o " - " \o beneficiary
    ELSE IF Truthy(concept) THEN label \o ": " \o concept
    ELSE IF Truthy(beneficiary) THEN label \o ": " \o beneficiary
    ELSE label

\* BanorteParser._extractSpeiReceived
Banorte_extractSpeiReceived(description) ==
    LET beneficiary == TrimOrNull(GroupToComma(description, "DEL CLIENTE", 1))
        concept == TrimOrNull(GroupToComma(description, "CONCEPTO:", 0))
    IN [beneficiary |-> beneficiary,
        trackingKey |-> TrimOrNull(GroupToken(description, "CVE RAST:")),
        time |-> GroupTime(description, "HR LIQ:"),
        rfc |-> TrimOrNull(GroupRfc(description, "RFC", 1, ",")),
        concept |-> concept,
        actualDescription |-> Banorte_actualDescription("SPEI Recibido", concept, beneficiary)]

\* description.match(/BENEF:([^,\(]+)/)[1], null without a match
Banorte_matchBenef(description) ==
    LET kw == "BENEF:"
        starts == {i \in Occurrences(description, kw) :
                      /\ i + Len(kw) <= Len(description)
                      /\ At(description, i + Len(kw)) \notin {",", "("}}
    IN IF starts = {} THEN Null
       ELSE LET g == Least(starts) + Len(kw)
            IN SubSeq(description, g, RunEndOutside(description, g, {",", "("}) - 1)

\* the concept of a sent transfer: group 1 of /TRANSFERENCIA,?\s*([^,]+)?/
\* trimmed, 'Transferencia' without a match or without the group
Banorte_sentConcept(description) ==
    LET kw == "TRANSFERENCIA"
        i == IndexOfFrom(description, kw, 1)
        p == IF LiteralAt(description, i + Len(kw), ",") THEN i + Len(kw) + 1 ELSE i + Len(kw)
        w == RunEnd(description, p, WhiteSpace)
    IN IF i = 0 \/ w > Len(description) \/ At(description, w) = "," THEN "Transferencia"
       ELSE Trim(SubSeq(description, w, RunEndOutside(description, w, {","}) - 1))

\* BanorteParser._extractSpeiSent
Banorte_extractSpeiSent(description) ==
    LET beneficiary == TrimOrNull(Banorte_matchBenef(description))
        concept == Banorte_sentConcept(description)
    IN [beneficiary |-> beneficiary,
        trackingKey |-> TrimOrNull(GroupToken(description, "CVE RASTREO:")),
        time |-> GroupTime(description, "HORA LIQ:"),
        rfc |-> TrimOrNull(GroupRfc(description, "RFC:", 0, ",")),
        concept |-> concept,
        actualDescription |-> Banorte_actualDescription("SPEI Enviado", concept, beneficiary)]

\* description.match(/RASTREO\s*:,\s*([^,\s]+)/)[1], null without a match
Banorte_matchRastreo(description) ==
    LET kw == "RASTREO"
        colon(i) == RunEnd(description, i + Len(kw), WhiteSpace)
        groupStart(i) == RunEnd(description, colon(i) + 2, WhiteSpace)
        starts == {i \in Occurrences(description, kw) :
                      /\ LiteralAt(description, colon(i), ":,")
                      /\ groupStart(i) <= Len(description)
                      /\ At(description, groupStart(i)) # ","}
    IN IF starts = {} THEN Null
       ELSE LET g == groupStart(Least(starts))
            IN SubSeq(description, g, RunEndOutside(description, g, WhiteSpace \cup {","}) - 1)

\* BanorteParser._extractCompensation
Banorte_extractCompensation(description) ==
    [trackingKey |-> TrimOrNull(Banorte_matchRastreo(description)),
     actualDescription |-> "Compensación SPEI"]

\* the result object before any grammar has filled it
Banorte_emptyResult(detailedDescription) ==
    [beneficiary |-> Null, trackingKey |-> Null, time |-> Null, rfc |-> Null,
     concept |-> Null, actualDescription |-> Null, rawDescription |-> detailedDescription]

\* BanorteParser._extractFromDetailedDescription with the test for the sent
\* transfers first
Banorte_extractFromDetailedDescription_sentFirst(detailedDescription) ==
    IF ~Truthy(detailedDescription) THEN Banorte_emptyResult(detailedDescription)
    ELSE IF Includes(detailedDescription, "COMPRA ORDEN DE PAGO SPEI")
             \/ Includes(detailedDescription, "BEM SPEI")
    THEN Banorte_extractSpeiSent(detailedDescription)
             @@ Banorte_emptyResult(detailedDescription)
    ELSE IF Includes(detailedDescription, "SPEI RECIBIDO")
    THEN Banorte_extractSpeiReceived(detailedDescription)
             @@ Banorte_emptyResult(detailedDescription)
    ELSE IF Includes(detailedDescription, "COMPENSACION DESFASE SPEI")
    THEN Banorte_extractCompensation(detailedDescription)
             @@ Banorte_emptyResult(detailedDescription)
    ELSE Banorte_emptyResult(detailedDescription)

\* BanorteParser._extractFromDetailedDescription: the fields that a grammar
\* returns replace those of the empty result
Banorte_extractFromDetailedDescription(detailedDescription) ==
    IF ~Truthy(detailedDescription) THEN Banorte_emptyResult(detailedDescription)
    ELSE IF Includes(detailedDescription, "SPEI RECIBIDO")
    THEN Banorte_extractSpeiReceived(detailedDescription)
             @@ Banorte_emptyResult(detailedDescription)
    ELSE IF Includes(detailedDescription, "COMPRA ORDEN DE PAGO SPEI")
             \/ Includes(detailedDescription, "BEM SPEI")
    THEN Banorte_extractSpeiSent(detailedDescription)
             @@ Banorte_emptyResult(detailedDescription)
    ELSE IF Includes(detailedDescription, "COMPENSACION DESFASE SPEI")
    THEN Banorte_extractCompensation(detailedDescription)
             @@ Banorte_emptyResult(detailedDescription)
    ELSE Banorte_emptyResult(detailedDescription)

-----------------------------------------------------------------------------
(* BanregioParser: the description miner, for a description of one line *)

\* \d{2}\/\d{2}\/\d{4} at position i
SlashDateAt(s, i) ==
    /\ i + 9 <= Len(s)
    /\ \A j \in {0, 1, 3, 4, 6, 7, 8, 9} : IsDigit(At(s, i + j))
    /\ At(s, i + 2) = "/" /\ At(s, i + 5) = "/"

\* \s+(.+)$ from position q on: the start of the group, 0 without a match; when
\* only white space is left, its last character is the group
RestAfterSpace(s, q) ==
    LET w == RunEnd(s, q, WhiteSpace)
    IN IF w = q THEN 0
       ELSE IF w <= Len(s) THEN w
       ELSE IF w - q >= 2 THEN Len(s)
       ELSE 0

\* \s+([^\.]+)\. from position q on: the start of the group, 0 when no group of
\* at least one character can start behind white space
GroupToDotStart(s, q) ==
    LET w == RunEnd(s, q, WhiteSpace)
    IN IF w = q THEN 0
       ELSE IF w <= Len(s) /\ At(s, w) # "." THEN w
       ELSE IF w - q >= 2 THEN w - 1
       ELSE 0

\* the position of the dot that ends the group which starts at g, 0 when none does
GroupToDotEnd(s, g) ==
    IF g = 0 \/ RunEndOutside(s, g, {"."}) > Len(s) THEN 0 ELSE RunEndOutside(s, g, {"."})

\* pattern1: an RFC at the start, white space, a date, white space, the rest
Banregio_match1(description) ==
    LET n == RfcLengthAt(description, 1, "")
        dateStart == RunEnd(description, n + 1, WhiteSpace)
        rest == RestAfterSpace(description, dateStart + 10)
    IN IF n # 0 /\ dateStart > n + 1 /\ SlashDateAt(description, dateStart) /\ rest # 0
       THEN [matched |-> TRUE,
             rfc |-> SubSeq(description, 1, n),
             date |-> SubSeq(description, dateStart, dateStart + 9),
             rest |-> SubSeq(description, rest, Len(description))]
       ELSE [matched |-> FALSE]

\* pattern2: a code of six capitals and three digits, 'SPEI.', a bank, an
\* account of digits, blanks and dots, a beneficiary, each closed by a dot. The
\* white space before the account is taken whole and the account as long as
\* the rest still matches
Banregio_match2(description) ==
    LET s == description
        spei == RunEnd(s, 10, WhiteSpace)
        bankStart == GroupToDotStart(s, spei + 5)
        bankEnd == GroupToDotEnd(s, bankStart)
        accountSpace == RunEnd(s, bankEnd + 1, WhiteSpace)
        closes(d2) == /\ At(s, d2) = "."
                      /\ GroupToDotEnd(s, GroupToDotStart(s, d2 + 1)) # 0
        accounts == {<<g3, d2>> \in ((bankEnd + 2)..accountSpace) \X (1..Len(s)) :
                        /\ d2 > g3
                        /\ AllIn(s, g3, d2 - 1, Digits \cup WhiteSpace \cup {"."})
                        /\ closes(d2)}
        best == CHOOSE a \in accounts :
                    \A b \in accounts : a[1] > b[1] \/ (a[1] = b[1] /\ a[2] >= b[2])
        beneficiaryStart == GroupToDotStart(s, best[2] + 1)
    IN IF /\ AllIn(s, 1, 6, CapitalLetters)
          /\ AllIn(s, 7, 9, Digits)
          /\ spei > 10
          /\ LiteralAt(s, spei, "SPEI.")
          /\ bankEnd # 0
          /\ accountSpace > bankEnd + 1
          /\ accounts # {}
       THEN [matched |-> TRUE,
             bank |-> SubSeq(s, bankStart, bankEnd - 1),
             beneficiary |-> SubSeq(s, beneficiaryStart, GroupToDotEnd(s, beneficiaryStart) - 1)]
       ELSE [matched |-> FALSE]

\* pattern3: '(BE)' or '(NB)' at the start, white space, the rest
Banregio_match3(description) ==
    LET rest == RestAfterSpace(description, 5)
    IN IF (LiteralAt(description, 1, "(BE)") \/ LiteralAt(description, 1, "(NB)")) /\ rest # 0
       THEN [matched |-> TRUE,
             type |-> SubSeq(description, 2, 3),
             rest |-> SubSeq(description, rest, Len(description))]
       ELSE [matched |-> FALSE]

WordCharacters == Letters \cup Digits \cup {"_"}

\* description.match(/(\b[A-Z0-9]{20,30}\b|\b\d{10,20}\b)/)[1]: the first word of
\* 20 to 30 capitals and digits or of 10 to 20 digits, undefined without one
Banregio_trackingKey(s) ==
    LET wordEnd(i) == RunEnd(s, i, WordCharacters)
        starts == {i \in 1..Len(s) :
                      /\ At(s, i) \in WordCharacters
                      /\ (i = 1 \/ At(s, i - 1) \notin WordCharacters)
                      /\ \/ /\ AllIn(s, i, wordEnd(i) - 1, CapitalLetters \cup Digits)
                            /\ wordEnd(i) - i \in 20..30
                         \/ /\ AllIn(s, i, wordEnd(i) - 1, Digits)
                            /\ wordEnd(i) - i \in 10..20}
    IN IF starts = {} THEN Undefined
       ELSE SubSeq(s, Least(starts), wordEnd(Least(starts)) - 1)

\* transferDesc.match(/Transferencia\s+(?:de\s+)?([^\.]+)/i)[1], null without a
\* match: 'de' and its white space are skipped when a group can follow them
Banregio_transferBeneficiary(transferDesc) ==
    LET t == transferDesc
        lower == ToLowerCase(t)
        kw == "transferencia"
        afterDe(w) == IF LiteralAt(lower, w, "de") THEN GroupToDotStart(t, w + 2) ELSE 0
        groupStart(i) ==
            LET p == i + Len(kw)
                w == RunEnd(t, p, WhiteSpace)
            IN IF w = p THEN 0
               ELSE IF afterDe(w) # 0 THEN afterDe(w)
               ELSE GroupToDotStart(t, p)
        starts == {i \in Occurrences(lower, kw) : groupStart(i) # 0}
    IN IF starts = {} THEN Null
       ELSE LET g == groupStart(Least(starts))
            IN SubSeq(t, g, RunEndOutside(t, g, {"."}) - 1)

\* transferDesc.match(/cuenta:\s*(\d+)/i)[1], null without a match
Banregio_accountReference(transferDesc) ==
    LET lower == ToLowerCase(transferDesc)
        kw == "cuenta:"
        groupStart(i) == RunEnd(transferDesc, i + Len(kw), WhiteSpace)
        starts == {i \in Occurrences(lower, kw) : DigitRun(transferDesc, groupStart(i)) > 0}
    IN IF starts = {} THEN Null
       ELSE LET g == groupStart(Least(starts))
            IN SubSeq(transferDesc, g, g + DigitRun(transferDesc, g) - 1)

\* the first RFC anywhere in the description, null without one
Banregio_firstRfc(s) ==
    LET starts == {i \in 1..Len(s) : RfcLengthAt(s, i, "") # 0}
    IN IF starts = {} THEN Null
       ELSE SubSeq(s, Least(starts), Least(starts) + RfcLengthAt(s, Least(starts), "") - 1)

\* the first date anywhere in the description, null without one
Banregio_firstDate(s) ==
    LET starts == {i \in 1..Len(s) : SlashDateAt(s, i)}
    IN IF starts = {} THEN Null ELSE SubSeq(s, Least(starts), Least(starts) + 9)

\* the descriptions for which the model of the miner is exact: those that match
\* one of the three patterns or do not hold the word SPEI
Banregio_isModelled(description) ==
    \/ Banregio_match1(description).matched
    \/ Banregio_match2(description).matched
    \/ Banregio_match3(description).matched
    \/ ~Includes(description, "SPEI")

\* the result object before any pattern has filled it
Banregio_emptyResult(description) ==
    [rfc |-> Null, transactionDate |-> Null, establishment |-> Null,
     actualDescription |-> Trim(description), rawDescription |-> description,
     trackingKey |-> Undefined]

\* BanregioParser._extractFromDescription
Banregio_extractFromDescription(description) ==
    LET match1 == Banregio_match1(description)
        match2 == Banregio_match2(description)
        match3 == Banregio_match3(description)
    IN IF match1.matched
       THEN [rfc |-> Trim(match1.rfc),
             transactionDate |-> Banregio_formatDate(match1.date).value,
             establishment |-> Trim(match1.rest),
             actualDescription |-> Trim(match1.rest)] @@ Banregio_emptyResult(description)
       ELSE IF match2.matched
       THEN [establishment |-> Trim(match2.beneficiary),
             actualDescription |-> "SPEI " \o match2.bank \o " - " \o match2.beneficiary,
             trackingKey |-> Banregio_trackingKey(description)]
                @@ Banregio_emptyResult(description)
       ELSE IF match3.matched
       THEN LET accountMatch == Banregio_accountReference(match3.rest)
                beneficiaryMatch == Banregio_transferBeneficiary(match3.rest)
                mined == (IF beneficiaryMatch # Null
                          THEN [establishment |-> Trim(beneficiaryMatch),
                                actualDescription |->
                                    (IF match3.type = "BE" THEN "Traspaso: " ELSE "Recepción: ")
                                        \o Trim(beneficiaryMatch)]
                          ELSE [establishment |-> Trim(match3.rest),
                                actualDescription |-> Trim(match3.rest)])
                             @@ Banregio_emptyResult(description)
            IN IF accountMatch # Null THEN [accountReference |-> accountMatch] @@ mined
               ELSE mined
       ELSE [rfc |-> TrimOrNull(Banregio_firstRfc(description)),
             transactionDate |->
                 IF Banregio_firstDate(description) = Null THEN Null
                 ELSE Banregio_formatDate(Banregio_firstDate(description)).value,
             establishment |-> Trim(description)] @@ Banregio_emptyResult(description)

-----------------------------------------------------------------------------
(* ScotiabankParser: the description miner *)

\* ScotiabankParser._parseDescription for a line that holds no SPEI transfer:
\* the trimmed description is the concept and the actual description
Scotiabank_parseDescription(description, fullLine, type) ==
    [description |-> Trim(description),
     actualDescription |-> Trim(description),
     beneficiary |-> Null,
     trackingKey |-> Null,
     time |-> Null,
     concept |-> Trim(description),
     rawDescription |-> description]

-----------------------------------------------------------------------------
(* The description miners, each called once on a description drawn from a pool *)

HsbcDescriptionPool ==
    {pad \o name \o marker \o number \o tail :
        pad \in {"", "  "},
        name \in {"JUAN PEREZ", "PAGO No. 7", "12 ABONO"},
        marker \in {"", " TRANSFERENCIA BPI", " SPEI", " TRANSFERENCIA BPI SPEI"},
        number \in {"", " 1234567", " 12"},
        tail \in {"", " SPEI"}}

BanorteMarkerPool ==
    {"", "SPEI RECIBIDO", "BEM SPEI", "COMPRA ORDEN DE PAGO SPEI", "COMPENSACION DESFASE SPEI"}

BanorteBodyPool ==
    {"",
     ", DEL CLIENTE JUAN PEREZ, CVE RAST: MBAN0100240301, HR LIQ: 10:15:00, RFC XAXX010101000, CONCEPTO: PAGO RENTA, FIN",
     ", BENEF:MARIA LOPEZ (DATO NO VERIF), CVE RASTREO: 8846APR1202403010001, HORA LIQ: 11:20:30, RFC: LOMM800101AB1, TRANSFERENCIA, PAGO FACTURA, FIN",
     ", RASTREO :, 2024030140072, FIN",
     ", DEL CLIENTE  , CONCEPTO:, TRANSFERENCIA"}

BanorteDescriptionPool ==
    {Undefined, "PAGO TIENDA"}
    \cup {first \o second \o body :
             first \in BanorteMarkerPool, second \in BanorteMarkerPool \ {""},
             body \in BanorteBodyPool}

BanregioDescriptionPool ==
    {"XAXX010101000 01/03/2024 TIENDA LA ESQUINA",
     "ABC010101AB1  1/03/2024 TIENDA",
     "ABC010101AB1 01/03/2024  ",
     "ABCDEF123 SPEI. BANORTE. 0123 4567 8901. JUAN PEREZ. PAGO",
     "ABCDEF123 SPEI. BANORTE. 012345678901234567. JUAN PEREZ.",
     "ABCDEF123 SPEI. BBVA. 1. 2. MARIA LOPEZ. 20240301400720000001",
     "ABCDEF123 SPEI. BANORTE. 0123",
     "(BE) Transferencia de JUAN PEREZ. cuenta: 123",
     "(NB) TRANSFERENCIA MARIA LOPEZ",
     "(NB) Transferencia de.",
     "(BE) Pago de servicios",
     "(NB) PAGO XAXX010101000 15/03/2024",
     "(BE)",
     "PAGO TIENDA",
     "  PAGO   TIENDA  ",
     "COMPRA XAXX010101000 15/03/2024",
     ""}

ScotiabankDescriptionPool ==
    {"PAGO NOMINA", PadEnd("COMISION", 30), "   ", "DEPOSITO EN EFECTIVO 0012"}

MineDone(name, input, result) ==
    /\ op' = name
    /\ arg' = input
    /\ ret' = result
    /\ pc' = "done"
    /\ KeepScan

CallHsbcExtractFromDescription ==
    /\ pc = "idle"
    /\ \E description \in HsbcDescriptionPool :
          MineDone("HsbcParser._extractFromDescription", description,
                   Hsbc_extractFromDescription(description))

CallBanorteExtractFromDetailedDescription ==
    /\ pc = "idle"
    /\ \E detailedDescription \in BanorteDescriptionPool :
          MineDone("BanorteParser._extractFromDetailedDescription", detailedDescription,
                   Banorte_extractFromDetailedDescription(detailedDescription))

CallBanregioExtractFromDescription ==
    /\ pc = "idle"
    /\ \E description \in BanregioDescriptionPool :
          /\ Banregio_isModelled(description)
          /\ MineDone("BanregioParser._extractFromDescription", description,
                      Banregio_extractFromDescription(description))

CallScotiabankParseDescription ==
    /\ pc = "idle"
    /\ \E description \in ScotiabankDescriptionPool, type \in {"credit", "debit"} :
          LET fullLine == PadEnd("CHQMXN", 60) \o PadEnd("", 60) \o PadEnd("", 15) \o description
          IN /\ ~Scotiabank_isSpei(fullLine)
             /\ MineDone("ScotiabankParser._parseDescription", description,
                         Scotiabank_parseDescription(description, fullLine, type))

NextMine ==
    \/ CallHsbcExtractFromDescription
    \/ CallBanorteExtractFromDetailedDescription
    \/ CallBanregioExtractFromDescription
    \/ CallScotiabankParseDescription

SpecMine == InitIdle /\ [][NextMine]_vars

-----------------------------------------------------------------------------
(* The order in which each miner tries its grammars *)

MinerCalled(name) == pc = "done" /\ op = name

BanorteSentMarker(d) == Includes(d, "COMPRA ORDEN DE PAGO SPEI") \/ Includes(d, "BEM SPEI")

\* the properties _extractFromDescription of HsbcParser copies from the
\* extraction e of one grammar
Hsbc_fieldsFrom(e, trackingKey, description) ==
    [beneficiary |-> e.beneficiary, trackingKey |-> trackingKey, concept |-> e.concept,
     actualDescription |-> e.actualDescription, rawDescription |-> description]

\* C15: each miner takes its fields from the first grammar, in its fixed
\* order, that the description matches, and from no other. Banorte: 'SPEI
\* RECIBIDO', then 'COMPRA ORDEN DE PAGO SPEI' or 'BEM SPEI', then
\* 'COMPENSACION DESFASE SPEI'. HSBC: 'SPEI', then 'TRANSFERENCIA BPI', then
\* the generic grammar. Banregio: the RFC and date pattern, then the SPEI
\* pattern, then the (BE)/(NB) pattern, then the fallback.
C15_FirstGrammarMines ==
    /\ (MinerCalled("BanorteParser._extractFromDetailedDescription") /\ Truthy(arg)) =>
          LET received == Includes(arg, "SPEI RECIBIDO")
              sent == BanorteSentMarker(arg)
              compensation == Includes(arg, "COMPENSACION DESFASE SPEI")
          IN /\ received => ret = Banorte_extractSpeiReceived(arg) @@ Banorte_emptyResult(arg)
             /\ (~received /\ sent) =>
                   ret = Banorte_extractSpeiSent(arg) @@ Banorte_emptyResult(arg)
             /\ (~received /\ ~sent /\ compensation) =>
                   ret = Banorte_extractCompensation(arg) @@ Banorte_emptyResult(arg)
             /\ (~received /\ ~sent /\ ~compensation) => ret = Banorte_emptyResult(arg)
    /\ MinerCalled("HsbcParser._extractFromDescription") =>
          LET spei == Includes(arg, "SPEI")
              bpi == Includes(arg, "TRANSFERENCIA BPI")
          IN /\ spei => ret = Hsbc_fieldsFrom(Hsbc_extractSpeiTransaction(arg),
                                              Hsbc_extractSpeiTransaction(arg).trackingKey, arg)
             /\ (~spei /\ bpi) => ret = Hsbc_fieldsFrom(Hsbc_extractBpiTransfer(arg), Null, arg)
             /\ (~spei /\ ~bpi) =>
                   ret = Hsbc_fieldsFrom(Hsbc_extractGenericTransaction(arg), Null, arg)
    /\ MinerCalled("BanregioParser._extractFromDescription") =>
          LET match1 == Banregio_match1(arg)
              match2 == Banregio_match2(arg)
              match3 == Banregio_match3(arg)
          IN /\ match1.matched =>
                   /\ ret.rfc = Trim(match1.rfc)
                   /\ ret.establishment = Trim(match1.rest)
                   /\ ret.actualDescription = Trim(match1.rest)
                   /\ ret.trackingKey = Undefined
             /\ (~match1.matched /\ match2.matched) =>
                   /\ ret.rfc = Null /\ ret.transactionDate = Null
                   /\ ret.establishment = Trim(match2.beneficiary)
                   /\ ret.actualDescription = "SPEI " \o match2.bank \o " - " \o match2.beneficiary
             /\ (~match1.matched /\ ~match2.matched /\ match3.matched) =>
                   /\ ret.rfc = Null /\ ret.transactionDate = Null
                   /\ ret.trackingKey = Undefined
                   /\ ret.establishment # Trim(arg)
             /\ (~match1.matched /\ ~match2.matched /\ ~match3.matched) =>
                   /\ ret.rfc = TrimOrNull(Banregio_firstRfc(arg))
                   /\ ret.establishment = Trim(arg)
                   /\ ret.actualDescription = Trim(arg)
                   /\ ret.trackingKey = Undefined

\* a Banorte description with the markers of a received and of a sent
\* transfer has been mined as a received one
C15_Witness ==
    /\ MinerCalled("BanorteParser._extractFromDetailedDescription")
    /\ Includes(arg, "SPEI RECIBIDO")
    /\ Includes(arg, "BEM SPEI")
    /\ Includes(arg, "BENEF:")
    /\ ret.actualDescription = "SPEI Recibido"

-----------------------------------------------------------------------------
(* Mining a description that holds no marker *)

EnrichmentFields == {"beneficiary", "trackingKey", "rfc", "concept", "time"}

MinerOps ==
    {"HsbcParser._extractFromDescription", "BanorteParser._extractFromDetailedDescription",
     "BanregioParser._extractFromDescription", "ScotiabankParser._parseDescription"}

\* the description d holds none of the markers the miner called name looks
\* for; the Scotiabank miner is only called here on lines without its marker
MarkerFree(name, d) ==
    /\ d # Undefined
    /\ name = "HsbcParser._extractFromDescription" =>
          ~Includes(d, "SPEI") /\ ~Includes(d, "TRANSFERENCIA BPI")
    /\ name = "BanorteParser._extractFromDetailedDescription" =>
          /\ ~Includes(d, "SPEI RECIBIDO") /\ ~BanorteSentMarker(d)
          /\ ~Includes(d, "COMPENSACION DESFASE SPEI")
    /\ name = "BanregioParser._extractFromDescription" =>
          /\ ~Banregio_match1(d).matched /\ ~Banregio_match2(d).matched
          /\ ~Banregio_match3(d).matched /\ ~Includes(d, "SPEI")
          /\ Banregio_firstRfc(d) = Null /\ Banregio_firstDate(d) = Null

\* the miner called name, applied to the description d
Mine(name, d) ==
    CASE name = "HsbcParser._extractFromDescription" -> Hsbc_extractFromDescription(d)
      [] name = "BanorteParser._extractFromDetailedDescription" ->
            Banorte_extractFromDetailedDescription(d)
      [] name = "BanregioParser._extractFromDescription" -> Banregio_extractFromDescription(d)
      [] name = "ScotiabankParser._parseDescription" ->
            Scotiabank_parseDescription(
                d, PadEnd("CHQMXN", 60) \o PadEnd("", 60) \o PadEnd("", 15) \o d, "credit")

\* the property k of the mined result is null, undefined or not there
Absent(result, k) == k \in DOMAIN result => result[k] \in {Null, Undefined}

\* C16: a description without markers is mined to an actualDescription equal
\* to the trimmed description and to no enrichment field (beneficiary,
\* trackingKey, rfc, concept, time), and mining that actualDescription again
\* gives the same actualDescription and again no enrichment field.
C16_MarkerFreeIsClean ==
    (pc = "done" /\ op \in MinerOps /\ MarkerFree(op, arg)) =>
        /\ ret.actualDescription = Trim(arg)
        /\ \A k \in EnrichmentFields : Absent(ret, k)
        /\ Mine(op, Trim(arg)).actualDescription = Trim(arg)
        /\ \A k \in EnrichmentFields : Absent(Mine(op, Trim(arg)), k)

-----------------------------------------------------------------------------
(* HsbcParser.parse: the rows of a sheet, whose cells are text or numbers *)

\* a cell of the array XLSX.utils.sheet_to_json(worksheet, {header: 1})
\* returns: text, a number (kept as its toString()), or nothing
StringCell(t) == [isString |-> TRUE, text |-> t]
NumberCell(t) == [isString |-> FALSE, text |-> t]
EmptyCell == [isString |-> FALSE, text |-> Undefined]

\* the truthiness of a cell: '' and 0 and undefined are falsy
CellTruthy(cell) == Truthy(cell.text) /\ ~(~cell.isString /\ cell.text = "0")

\* row[index] || ''
CellOrEmpty(row, index) ==
    IF index <= Len(row) /\ CellTruthy(row[index]) THEN row[index] ELSE StringCell("")

\* HsbcParser._mapHeaderToEnglish
Hsbc_mapHeaderToEnglish(spanishHeader) ==
    CASE spanishHeader = "Nombre de cuenta" -> "accountName"
      [] spanishHeader = "Número de cuenta" -> "accountNumber"
      [] spanishHeader = "Nombre del banco" -> "bankName"
      [] spanishHeader = "Moneda" -> "currency"
      [] spanishHeader = "Ubicación" -> "location"
      [] spanishHeader = "BIC" -> "bic"
      [] spanishHeader = "IBAN" -> "iban"
      [] spanishHeader = "Estatus de cuenta" -> "accountStatus"
      [] spanishHeader = "Tipo de cuenta" -> "accountType"
      [] spanishHeader = "Saldo en libros al cierre" -> "closingBookBalance"
      [] spanishHeader = "Saldo en libros final al cierre del ejercicio anterior de" ->
            "previousClosingBookBalance"
      [] spanishHeader = "Saldo disponible al cierre" -> "closingAvailableBalance"
      [] spanishHeader = "Saldo final disponible del ejercicio anterior de" ->
            "previousClosingAvailableBalance"
      [] spanishHeader = "Saldo actual en libros" -> "currentBookBalance"
      [] spanishHeader = "Saldo actual en libros al" -> "currentBookBalanceDate"
      [] spanishHeader = "Saldo actual disponible" -> "currentAvailableBalance"
      [] spanishHeader = "Saldo actual disponible al" -> "currentAvailableBalanceDate"
      [] spanishHeader = "Referencia bancaria" -> "bankReference"
      [] spanishHeader = "Descripción" -> "description"
      [] spanishHeader = "Referencia de cliente" -> "clientReference"
      [] spanishHeader = "Tipo de TRN" -> "transactionType"
      [] spanishHeader = "Importe de crédito" -> "creditAmount"
      [] spanishHeader = "Importe del débito" -> "debitAmount"
      [] spanishHeader = "Saldo" -> "balance"
      [] spanishHeader = "Fecha del apunte" -> "entryDate"
      [] OTHER -> spanishHeader

\* HsbcParser._extractAccountInfo(firstRow, headers).accountNumber
Hsbc_accountNumber(firstRow, headers) ==
    LET columns == {i \in 1..Len(headers) : headers[i] = "accountNumber"}
    IN IF columns = {} THEN "" ELSE CellOrEmpty(firstRow, Greatest(columns)).text

\* HsbcParser._extractFromDescription of a cell: description.trim() stands in
\* the literal that builds the result, before the try block
Hsbc_extractFromDescriptionOfCell(cell) ==
    IF cell.isString THEN Ok(Hsbc_extractFromDescription(cell.text)) ELSE Throw

\* HsbcParser.parseRow of a record of cells. _formatDate and _parseCurrency
\* take the toString() of a number, so they see its text; the reference cells
\* of the sheets modelled are text
Hsbc_parseRowOfCells(record, accountNumber) ==
    IF ~CellTruthy(record.entryDate) \/ ~CellTruthy(record.description) THEN RowNull
    ELSE LET extracted == Hsbc_extractFromDescriptionOfCell(record.description)
         IN IF extracted.threw THEN RowThrow
            ELSE Hsbc_parseRow([k \in DOMAIN record |-> record[k].text], accountNumber,
                               extracted.value)

\* HsbcParser.parse of the array of rows data (data[0] is the header row):
\* any exception ends in the catch block, which returns []
Hsbc_parse(data) ==
    IF Len(data) < 2 THEN Ok(<<>>)
    ELSE LET headers == [i \in 1..Len(data[1]) |-> Hsbc_mapHeaderToEnglish(data[1][i])]
             accountNumber == OrElse(Hsbc_accountNumber(data[2], headers), "")
             rowsKept == SelectSeq(SubSeq(data, 2, Len(data)),
                                   LAMBDA row : Len(row) >= Len(headers))
             recordOf(row) ==
                 [k \in {headers[i] : i \in 1..Len(headers)} |->
                     CellOrEmpty(row, CHOOSE i \in 1..Len(headers) : headers[i] = k)]
         IN MapCaught([i \in 1..Len(rowsKept) |->
                          Hsbc_parseRowOfCells(recordOf(rowsKept[i]), accountNumber)])

MaxSheetRows == 2

HsbcHeaderRow ==
    <<"Número de cuenta", "Fecha del apunte", "Descripción", "Referencia de cliente",
      "Referencia bancaria", "Importe del débito", "Importe de crédito", "Saldo">>

HsbcDescriptionCellPool ==
    {StringCell("JUAN PEREZ 1234567 SPEI"), StringCell("PAGO TIENDA"), NumberCell("4500123"),
     StringCell("")}

HsbcSheetRowPool ==
    {<<NumberCell("4001234567"), date, description, StringCell("C1"), StringCell("B1"),
       EmptyCell, credit, NumberCell("1000")>> :
        date \in {StringCell("01/03/2024"), EmptyCell},
        description \in HsbcDescriptionCellPool,
        credit \in {NumberCell("1500.5")}}
    \cup {<<NumberCell("4001234567"), StringCell("5/3/2024"), StringCell("PAGO TIENDA"),
            StringCell(""), StringCell("B2"), StringCell("1,250.00"), NumberCell("0"),
            StringCell("2,000.00")>>,
          <<NumberCell("4001234567"), StringCell("01/03/2024"), StringCell("PAGO TIENDA")>>}

\* the sheets: the header row and at most MaxSheetRows rows under it
HsbcSheets == {<<HsbcHeaderRow>> \o rows : rows \in DocsOf(HsbcSheetRowPool, MaxSheetRows)}

CallHsbcExtractFromDescriptionOfCell ==
    /\ pc = "idle"
    /\ \E cell \in HsbcDescriptionCellPool \ {StringCell("")} :
          ParseDone("HsbcParser._extractFromDescription(cell)", cell,
                    Hsbc_extractFromDescriptionOfCell(cell))

CallHsbcParse ==
    /\ pc = "idle"
    /\ \E data \in HsbcSheets : ParseDone("HsbcParser.parse", data, Hsbc_parse(data))

NextHsbc ==
    \/ CallHsbcExtractFromDescriptionOfCell
    \/ CallHsbcParse

SpecHsbc == InitIdle /\ [][NextHsbc]_vars

\* the row of a sheet passes the checks of parse and parseRow: it is as long
\* as the header row and has an entry date and a description
HsbcRowPasses(row) ==
    /\ Len(row) >= Len(HsbcHeaderRow)
    /\ CellTruthy(row[2])
    /\ CellTruthy(row[3])

\* C17: description mining never raises, whatever the description cell holds,
\* and never costs a row: parse returns one transaction for every row that has
\* the required fields.
C17_MiningNeverLosesRows ==
    /\ (pc = "done" /\ op = "HsbcParser._extractFromDescription(cell)") => ~ret.threw
    /\ (pc = "done" /\ op = "HsbcParser.parse") =>
          /\ ~ret.threw
          /\ Len(ret.value) = Cardinality({i \in 2..Len(arg) : HsbcRowPasses(arg[i])})

-----------------------------------------------------------------------------
(* The date normalizers on well-formed dates *)

NoDate == [wellFormed |-> FALSE]

IsNumeral(s, widths) == Len(s) \in widths /\ \A j \in 1..Len(s) : At(s, j) \in Digits

\* day, month and year of a date written with a separator, day first; NoDate
\* when the text is not such a date. Day and month have one or two
\* digits, the year has four
DayFirstParts(input, sep) ==
    LET parts == Split(input, sep)
    IN IF /\ Len(parts) = 3
          /\ IsNumeral(parts[1], {1, 2}) /\ IsNumeral(parts[2], {1, 2})
          /\ IsNumeral(parts[3], {4})
       THEN [wellFormed |-> TRUE, day |-> parts[1], month |-> parts[2], year |-> parts[3]]
       ELSE NoDate

\* day, month and year of the well-formed date input in the format of the
\* normalizer called name, NoDate when the text is no well-formed date of that
\* format: DD/MM/YYYY, DD-MM-YYYY, DDMMYYYY of eight digits, YYYY/MM/DD of ten
\* characters
WellFormedDate(name, input) ==
    CASE name \in {"BanregioParser._formatDate", "BanregioParser(v1)._formatDate",
                   "BanorteParser._formatDate", "HsbcParser._formatDate"} ->
            DayFirstParts(input, "/")
      [] name = "BbvaParser._formatDate" -> DayFirstParts(input, "-")
      [] name = "SantanderParser._formatDate" ->
            IF IsNumeral(input, {8})
            THEN [wellFormed |-> TRUE, day |-> SubSeq(input, 1, 2), month |-> SubSeq(input, 3, 4),
                  year |-> SubSeq(input, 5, 8)]
            ELSE NoDate
      [] name = "ScotiabankParser._formatDate" ->
            LET parts == Split(input, "/")
            IN IF /\ Len(parts) = 3
                  /\ IsNumeral(parts[1], {4}) /\ IsNumeral(parts[2], {2})
                  /\ IsNumeral(parts[3], {2})
               THEN [wellFormed |-> TRUE, day |-> parts[3], month |-> parts[2], year |-> parts[1]]
               ELSE NoDate
      [] OTHER -> NoDate

TwoDigits(s) == IF Len(s) = 1 THEN "0" \o s ELSE s

-----------------------------------------------------------------------------
(* The currency normalizers, each called on its own *)

\* a number that is not NaN, in hundredths
Num(v) == [nan |-> FALSE, v |-> v]

\* BbvaParser._parseNumber of the revision that reads the file line by line:
\* the parseFloat is returned as it is, NaN included
BbvaLine_parseNumber(str) ==
    IF ~Truthy(str) THEN Num(0) ELSE ParseFloat(RemoveChars(str, {","}))

CurrencyOps ==
    {"SantanderParser._parseCurrency", "BanregioParser._parseCurrency",
     "BanorteParser._parseCurrency", "BanorteParser._parseMoney", "AfirmeParser._parseNumber",
     "BbvaParser._parseNumber", "BbvaParser(line)._parseNumber", "BanBajioParser._parseNumber",
     "BanBajioParser(positional)._parseNumber", "BanBajioParser(line)._parseMoney",
     "HsbcParser._parseCurrency", "ScotiabankParser._parseNumber"}

ParseCurrency(name, str) ==
    CASE name = "SantanderParser._parseCurrency" -> Num(Santander_parseCurrency(str))
      [] name = "BanregioParser._parseCurrency" -> Num(Banregio_parseCurrency(str))
      [] name = "BanorteParser._parseCurrency" -> Num(Banorte_parseCurrency(str))
      [] name = "BanorteParser._parseMoney" -> Num(Banorte_parseMoney(str))
      [] name = "AfirmeParser._parseNumber" -> Num(Afirme_parseNumber(str))
      [] name = "BbvaParser._parseNumber" -> Num(Bbva_parseNumber(str))
      [] name = "BbvaParser(line)._parseNumber" -> BbvaLine_parseNumber(str)
      [] name = "BanBajioParser._parseNumber" -> Num(BanBajio_parseNumber(str))
      [] name = "BanBajioParser(positional)._parseNumber" ->
            Num(BanBajioPositional_parseNumber(str))
      [] name = "BanBajioParser(line)._parseMoney" -> Num(BanBajioLine_parseMoney(str))
      [] name = "HsbcParser._parseCurrency" -> Num(Hsbc_parseCurrency(str))
      [] name = "ScotiabankParser._parseNumber" -> Num(Scotiabank_parseNumber(str))

CurrencyPool ==
    {"", "   ", "0", "$0.00", "0.00", "$1,234.56", "1,234.56", "\"1,234.56\"", "'500.00'",
     "1500", "-45.10", " 7.5 ", "abc", "$", "0001500.00"}

CallParseCurrency ==
    /\ pc = "idle"
    /\ \E name \in CurrencyOps, str \in CurrencyPool :
          /\ op' = name
          /\ arg' = str
          /\ ret' = ParseCurrency(name, str)
    /\ pc' = "done"
    /\ KeepScan

NextCurrency == CallParseCurrency

SpecCurrency == InitIdle /\ [][NextCurrency]_vars

\* the text without '$', grouping commas and quote characters
CurrencyRemainder(str) == Trim(RemoveChars(str, {"$", ",", "\"", "'"}))

\* C19: every currency parser returns the numeric value of the text without
\* '$', commas and quote characters, and 0, never NaN, when the text is empty,
\* blank, '0' or '$0.00' or when what remains is not a number; '$1,234.56'
\* gives 1234.56.
C19_CurrencyParsed ==
    (pc = "done" /\ op \in CurrencyOps) =>
        /\ ~ret.nan
        /\ ret.v = OrZero(ParseFloat(CurrencyRemainder(arg)))
        /\ (Trim(arg) = "" \/ arg \in {"0", "$0.00"}) => ret.v = 0
        /\ arg = "$1,234.56" => ret.v = 123456

-----------------------------------------------------------------------------
(* Successive calls of parse *)

\* In this specification arg is the sequence of the calls made so far, each
\* the parser and the document it was given, and ret the sequence of what
\* they returned. SantanderParser.parse runs line by line, as above; its
\* locals are declared anew by every call.

MaxCalls == 2

SessionSantanderDocs ==
    {Join(<<SantanderHeader,
            "'01032024','10:15','0001','DEPOSITO','0.00','500.00','1,500.00','REF1','NOMINA'",
            "'03032024','12:00','0003','COMISION',10.00,0.00,239.50,REF3,">>, "\n"),
     Join(<<"'01032024','10:15','0001','DEPOSITO','0.00','500.00','1,500.00','REF1','NOMINA'",
            "'03032024','12:00','0003','COMISION',10.00,0.00,239.50,REF3,">>, "\n"),
     Join(<<"Cuenta: 65-50123456-7, Contrato: 80012345", SantanderHeader,
            "'03032024','12:00','0003','COMISION',10.00,0.00,239.50,REF3,">>, "\r\n"),
     Join(<<SantanderHeader, "",
            "'01032024','10:15','0001','DEPOSITO','0.00','500.00','1,500.00','REF1','NOMINA'">>,
          "\n")}

SessionBanregioDocs ==
    {Join(<<"CUENTA: 123456789, CLABE: 058000000000000001", BanregioHeader,
            "01/03/2024,PAGO TIENDA,REF_1,0.00,500.00,1500.00,A">>, "\n"),
     Join(<<"01/03/2024,PAGO TIENDA,REF_1,0.00,500.00,1500.00,A">>, "\n")}

CallsSoFar == IF pc = "idle" THEN <<>> ELSE arg
ResultsSoFar == IF pc = "idle" THEN <<>> ELSE ret

\* a parse whose loop starts with the flag and the records the call before left
SessionSantanderParseStart_keepsLocals ==
    /\ pc \in {"idle", "done"}
    /\ Len(CallsSoFar) < MaxCalls
    /\ \E fileContent \in SessionSantanderDocs :
          /\ arg' = Append(CallsSoFar, [parser |-> "SantanderParser", fileContent |-> fileContent])
          /\ lines' = TrimmedLines(fileContent)
    /\ op' = "SantanderParser.parse"
    /\ ret' = ResultsSoFar
    /\ idx' = 1
    /\ UNCHANGED <<inDataSection, records>>
    /\ pc' = "scan"

\* SantanderParser.parse(fileContent), up to the for loop, on an instance that
\* may have parsed before
SessionSantanderParseStart ==
    /\ pc \in {"idle", "done"}
    /\ Len(CallsSoFar) < MaxCalls
    /\ \E fileContent \in SessionSantanderDocs :
          /\ arg' = Append(CallsSoFar, [parser |-> "SantanderParser", fileContent |-> fileContent])
          /\ lines' = TrimmedLines(fileContent)
    /\ op' = "SantanderParser.parse"
    /\ ret' = ResultsSoFar
    /\ idx' = 1
    /\ inDataSection' = FALSE
    /\ records' = <<>>
    /\ pc' = "scan"

\* return records.map(...).filter(Boolean)
SessionSantanderParseReturn ==
    /\ \/ pc = "return"
       \/ pc = "scan" /\ idx > Len(lines)
    /\ ret' = Append(ret, Ok(Santander_mapRows(records, Santander_accountNumber(lines, 1, ""))))
    /\ pc' = "done"
    /\ UNCHANGED <<op, arg, lines, idx, inDataSection, records>>

\* BanregioParser.parse(fileContent), between two calls of the other parser
SessionBanregioParse ==
    /\ pc \in {"idle", "done"}
    /\ Len(CallsSoFar) < MaxCalls
    /\ \E fileContent \in SessionBanregioDocs :
          /\ arg' = Append(CallsSoFar, [parser |-> "BanregioParser", fileContent |-> fileContent])
          /\ ret' = Append(ResultsSoFar, Banregio_parse(fileContent, NoExtraction))
    /\ op' = "BanregioParser.parse"
    /\ pc' = "done"
    /\ KeepScan

NextSession ==
    \/ SessionSantanderParseStart
    \/ SantanderParseLine
    \/ SessionSantanderParseReturn
    \/ SessionBanregioParse

SpecSession == InitIdle /\ [][NextSession]_vars

\* what the parser returns for the document when it is the first call made
FirstCallResult(call) ==
    IF call.parser = "BanregioParser" THEN Banregio_parse(call.fileContent, NoExtraction)
    ELSE LET ls == TrimmedLines(call.fileContent)
             h == SantanderFirstHeader(ls)
             e == SectionEndAtNonDataNonHeaderLine(ls, h)
         IN Ok(IF h = 0 THEN <<>>
               ELSE SantanderRowsOf(ls, h + 1, e - 1, Santander_accountNumber(ls, 1, "")))

\* C20: parsing is stateless. Whatever calls came before it, on the same
\* parser or on another bank's, a call of parse returns what it returns as a
\* first call, and two calls with the same document return equal sequences.
C20_ParseIsStateless ==
    pc = "done" =>
        /\ Len(ret) = Len(arg)
        /\ \A k \in 1..Len(arg) : ret[k] = FirstCallResult(arg[k])
        /\ \A j, k \in 1..Len(arg) : arg[j] = arg[k] => ret[j] = ret[k]

\* a second call of SantanderParser.parse, on a document whose data lines
\* stand under no header, has returned nothing after a first call that
\* returned transactions
C20_Witness ==
    /\ pc = "done"
    /\ Len(arg) = 2
    /\ arg[1].parser = "SantanderParser" /\ arg[2].parser = "SantanderParser"
    /\ Len(ret[1].value) > 0
    /\ SantanderFirstHeader(TrimmedLines(arg[2].fileContent)) = 0
    /\ \E k \in 1..Len(lines) : Santander_isDataLine(lines[k])
    /\ ret[2] = Ok(<<>>)

-----------------------------------------------------------------------------
(* The order of the returned transactions *)

\* the reference and the description of the transactions are those of the
\* rows: the miner, where parse was called with what it returns, added nothing
TagsFromRows ==
    op \in {"BanregioParser.parse", "BanBajioParser.parse"} => arg.extractedData = NoExtraction

\* the transaction tx can have come from the line: the line holds its
\* reference (the parsers of Banregio drop an underscore from it) or, when it
\* has no reference, its description
LineGives(line, tx) ==
    IF Truthy(tx.reference)
    THEN Includes(RemoveChars(line, {"_"}), RemoveChars(tx.reference, {"_"}))
    ELSE Includes(line, tx.description)

\* the strictly increasing sequences of n positions among 1..m
RECURSIVE IncreasingPositions(_, _)
IncreasingPositions(n, m) ==
    IF n = 0 THEN {<<>>}
    ELSE IF m < n THEN {}
    ELSE IncreasingPositions(n, m - 1)
            \cup {Append(f, m) : f \in IncreasingPositions(n - 1, m - 1)}

\* C21: the transactions parse returns stand in file order, and no row gives
\* more than one: the k-th transaction comes from a line of its own, and the
\* lines of later transactions stand later in the document.
C21_FileOrder ==
    (ParseReturned /\ ~ret.threw /\ TagsFromRows) =>
        LET ls == SplitLines(FileContentOf)
        IN \E f \in IncreasingPositions(Len(ret.value), Len(ls)) :
              \A k \in 1..Len(ret.value) : LineGives(ls[f[k]], ret.value[k])

\* SantanderParser.parse has returned the transactions of two different rows
C21_Witness ==
    /\ ParseReturned
    /\ op = "SantanderParser.parse"
    /\ Len(ret.value) = 2
    /\ ret.value[1].reference # ret.value[2].reference

-----------------------------------------------------------------------------
(* parse of the BanBajio revision that reads the columns by their index *)

\* BanBajioParser._extractFromDescription of the positional revision, for a
\* description without 'Hora:', 'RFC ', 'Concepto del Pago:', 'SPEI ' and
\* 'Comisión': the tracking key, the reference and the text before the first bar
BanBajioPositional_extractFromDescription(description) ==
    LET trackingKey == MatchClaveDeRastreo(description)
        reference == MatchReferencia(description)
        head == Trim(Split(description, "|")[1])
    IN [NoExtraction EXCEPT
           !.trackingKey = IF trackingKey # Null THEN Trim(trackingKey) ELSE Null,
           !.reference = IF reference # Null THEN Trim(reference) ELSE Null,
           !.actualDescription = IF Truthy(head) THEN head ELSE description]

\* the cast callback: the columns 9, 10 and 11 become numbers
BanBajioPositional_cast(cells) ==
    [i \in 1..Len(cells) |->
        IF i \in {10, 11, 12} THEN Num(BanBajioPositional_parseNumber(cells[i])) ELSE cells[i]]

\* Array.prototype.reverse left out
Reversed_kept(s) == s

\* Array.prototype.reverse
Reversed(s) == [i \in 1..Len(s) |-> s[Len(s) + 1 - i]]

\* parseRow on the cast record of one row of the file
BanBajioPositional_rowOf(cells) ==
    BanBajioPositional_parseRow(BanBajioPositional_cast(cells),
                                BanBajioPositional_extractFromDescription(Elem(cells, 5)))

\* BanBajioParser.parse of the positional revision
BanBajioPositional_parse(fileContent) ==
    LET rows == CsvRows(fileContent, ",")
        results == [i \in 1..Len(rows) |-> BanBajioPositional_rowOf(rows[i])]
    IN IF AnyThrew(results) THEN Ok(<<>>) ELSE Ok(Reversed(KeepTransactions(results)))

BanBajioPositionalHeader == "Cuenta,Fecha,Hora,Recibo,Descripción,Tipo,Cargos,Abonos,Saldo"

\* lines of a statement that are no movements
BanBajioPositionalMetadataLines ==
    {BanBajioPositionalHeader,
     "Saldo final",
     "BANCO DEL BAJIO,Estado de cuenta,,,Periodo 03/2024"}

BanBajioPositionalLinePool ==
    BanBajioPositionalMetadataLines \cup
    {"0123456789,01/03/2024,09:30,R1,PAGO TIENDA,,0.00,500.00,1500.00",
     "0123456789,2/3/2024,09:40,R2,RETIRO | Referencia: 77,,50.00,0.00,1450.00",
     "0123456789,,09:50,R3,COMISION,,10.00,0.00,1440.00",
     "0123456789,03/03/2024,10:00,R4,,,10.00,0.00,1430.00"}

BanBajioPositionalDescriptionPool ==
    {"PAGO TIENDA", "RETIRO | Referencia: 77", "Clave de Rastreo: BB01 | Referencia: 9",
     "| Referencia: 5", "Descripción"}

CallBanBajioPositionalExtractFromDescription ==
    /\ pc = "idle"
    /\ \E description \in BanBajioPositionalDescriptionPool :
          MineDone("BanBajioParser(positional)._extractFromDescription", description,
                   BanBajioPositional_extractFromDescription(description))

CallBanBajioPositionalParse ==
    /\ pc = "idle"
    /\ \E fileContent \in FilesOf(BanBajioPositionalLinePool) :
          ParseDone("BanBajioParser(positional).parse", fileContent,
                    BanBajioPositional_parse(fileContent))

NextPositional ==
    \/ CallBanBajioPositionalExtractFromDescription
    \/ CallBanBajioPositionalParse

SpecPositional == InitIdle /\ [][NextPositional]_vars

PositionalParseReturned == pc = "done" /\ op = "BanBajioParser(positional).parse"

\* the rows of the parsed file, in file order
PositionalRows == CsvRows(arg, ",")

\* a valid row: its second and its fifth column hold text
PositionalRowValid(cells) == Truthy(Elem(cells, 2)) /\ Truthy(Elem(cells, 5))

\* the positions of the valid rows of the parsed file
PositionalValidRows == {i \in 1..Len(PositionalRows) : PositionalRowValid(PositionalRows[i])}

\* the k-th valid row counted from the end of the file
RECURSIVE KthFromEnd(_, _)
KthFromEnd(S, k) ==
    LET last == CHOOSE i \in S : \A j \in S : j <= i
    IN IF k = 1 THEN last ELSE KthFromEnd(S \ {last}, k - 1)

\* the transaction at position k was made of the row at position i of the file
PositionalMadeOf(k, i) ==
    LET cells == PositionalRows[i]
        tx == ret.value[k]
    IN /\ tx.accountNumber = cells[1]
       /\ tx.date = BanBajioPositional_formatDate(cells[2]).value
       /\ tx.description = BanBajioPositional_extractFromDescription(cells[5]).actualDescription
       /\ tx.balance = BanBajioPositional_parseNumber(OrElse(Elem(cells, 9), "0"))

\* C22: the positional BanBajio parser returns one transaction for every valid
\* row, and the k-th returned transaction is the one of the k-th valid row
\* counted from the end of the file; the invalid rows take no place.
C22_ReverseFileOrder ==
    PositionalParseReturned =>
        /\ ~ret.threw
        /\ Len(ret.value) = Cardinality(PositionalValidRows)
        /\ \A k \in 1..Len(ret.value) : PositionalMadeOf(k, KthFromEnd(PositionalValidRows, k))

\* two valid rows with an invalid row between them came back last row first
C22_Witness ==
    /\ PositionalParseReturned
    /\ Len(PositionalRows) = 3
    /\ PositionalValidRows = {1, 3}
    /\ Len(ret.value) = 2
    /\ ret.value[1].reference = "77"
    /\ ret.value[2].reference = "R1"

\* the rows of the parsed file that are no movements
PositionalMetadataRows ==
    {i \in 1..Len(PositionalRows) :
        \E l \in BanBajioPositionalMetadataLines : PositionalRows[i] = CsvFields(l, ",")}

\* C23: no transaction returned by the positional BanBajio parser is made of a
\* header row or of another metadata line of the file.
C23_NoMetadataTransaction ==
    PositionalParseReturned =>
        \A k \in 1..Len(ret.value) : \A i \in PositionalMetadataRows : ~PositionalMadeOf(k, i)

-----------------------------------------------------------------------------
(* Commas inside the description of a BanBajio line *)

\* the fields of a line of eight fields whose description may hold commas: four
\* fields from the left, three from the right, the description between them
EightFieldsOf(line) ==
    LET cells == Split(line, ",")
        n == Len(cells)
    IN SubSeq(cells, 1, 4) \o <<Join(SubSeq(cells, 5, n - 3), ",")>> \o SubSeq(cells, n - 2, n)

\* parseLine was called on a line of eight fields with a comma in the description
CommaDescriptionLine ==
    /\ pc = "done"
    /\ op = "BanBajioParser(line).parseLine"
    /\ Len(Split(arg.line, ",")) > 8

\* C24: parseLine on a line of eight fields whose description holds commas
\* returns a transaction with the whole description, the balance of the last
\* field and the amount of the two fields before it.
C24_CommasKeepAlignment ==
    CommaDescriptionLine =>
        LET fields == EightFieldsOf(arg.line)
            charges == BanBajioLine_parseMoney(fields[6])
            credits == BanBajioLine_parseMoney(fields[7])
        IN /\ IsTx(ret)
           /\ ret.tx.description = fields[5]
           /\ ret.tx.balance = BanBajioLine_parseMoney(fields[8])
           /\ ret.tx.amount = IF credits # 0 THEN credits ELSE 0 - charges

-----------------------------------------------------------------------------
(* _splitCsvWithLimit on its own *)

MaxSplitLen == 4
MaxLimit == 3

SplitAlphabet == {",", "a", " "}

CallBanBajioSplitCsvWithLimit ==
    /\ pc = "idle"
    /\ \E line \in StringsOf(SplitAlphabet, MaxSplitLen), limit \in 0..MaxLimit :
          MineDone("BanBajioParser(line)._splitCsvWithLimit",
                   [line |-> line, limit |-> limit],
                   BanBajio_splitCsvWithLimit(line, limit))

NextSplit == CallBanBajioSplitCsvWithLimit

SpecSplit == InitIdle /\ [][NextSplit]_vars

SplitReturned == pc = "done" /\ op = "BanBajioParser(line)._splitCsvWithLimit"

CommasOf(s) == Cardinality({i \in 1..Len(s) : At(s, i) = ","})

\* C30: _splitCsvWithLimit(line, n) returns min(commas of line, n) + 1 parts,
\* none but the last of them holds a comma, and the parts joined with ','
\* are the line.
C30_SplitWithLimit ==
    SplitReturned =>
        /\ Len(ret) = Min(CommasOf(arg.line), arg.limit) + 1
        /\ \A k \in 1..(Len(ret) - 1) : CommasOf(ret[k]) = 0
        /\ Join(ret, ",") = arg.line

\* a line with more commas than the limit: the last part keeps a comma
C30_Witness ==
    /\ SplitReturned
    /\ arg.limit = 1
    /\ CommasOf(arg.line) = 2
    /\ Len(ret) = 2
    /\ CommasOf(ret[2]) = 1

-----------------------------------------------------------------------------
(* The bank of the transactions of the dispatched parsers *)

\* the parts of a bank identity
BankIdentityParts == {"id", "code", "name"}

\* parse of the AfirmeParser that getParserForBank('afirme') constructs returned
DispatchedAfirmeParseReturned ==
    /\ pc = "done"
    /\ op = "AfirmeParser(bundled).parse"
    /\ getParserForBank("afirme") = Ok("AfirmeParser")
    /\ ~ret.threw

\* C25: every transaction returned by the parser that getParserForBank gives
\* for a bank carries in bank an identity with the parts id, code and name,
\* the same one in all the transactions.
C25_BankIdentity ==
    DispatchedAfirmeParseReturned =>
        \A k \in 1..Len(ret.value) :
            /\ DOMAIN ret.value[k].bank = BankIdentityParts
            /\ ret.value[k].bank = ret.value[1].bank

-----------------------------------------------------------------------------
(* The spellings of the BBVA date label *)

\* the date label as the bank writes it, and as it reads when the UTF-8 bytes
\* of the file are decoded as Latin-1
BbvaDateLabels == {"Día", "DÃ­a"}

\* the labels of the header table of _mapHeaderToEnglish
BbvaTableLabels == {"DÃ­a", "Concepto / Referencia", "Concepto", "cargo", "Abono", "Saldo"}

BbvaLabelPool == BbvaDateLabels \cup BbvaTableLabels \cup {"Fecha", "Cargo", ""}

BbvaHeaderRest == "\tConcepto / Referencia\tcargo\tAbono\tSaldo"

BbvaRowPool ==
    {"01-03-2024\tPAGO /1234567890\t\t500.00\t1,500.00",
     "02-03-2024\tRETIRO\t50.00\t\t1,450.00",
     "03-03-2024\t\t10.00\t\t1,440.00"}

CallBbvaMapHeaderToEnglish ==
    /\ pc = "idle"
    /\ \E spanishHeader \in BbvaLabelPool :
          MineDone("BbvaParser._mapHeaderToEnglish", spanishHeader,
                   Bbva_mapHeaderToEnglish(spanishHeader))

CallBbvaParseWithHeader ==
    /\ pc = "idle"
    /\ \E label \in BbvaDateLabels \cup {"Fecha"}, doc \in DocsOf(BbvaRowPool, MaxLines),
          nl \in LineEndings :
          LET fileContent == Join(<<label \o BbvaHeaderRest>> \o doc, nl)
          IN ParseDone("BbvaParser(header).parse", [label |-> label, fileContent |-> fileContent],
                       Bbva_parse(fileContent))

NextBbva ==
    \/ CallBbvaMapHeaderToEnglish
    \/ CallBbvaParseWithHeader

SpecBbva == InitIdle /\ [][NextBbva]_vars

\* the rows of the parsed file that hold a date and a description
BbvaFullRows ==
    LET rows == CsvRows(arg.fileContent, "\t")
    IN {i \in 2..Len(rows) : Truthy(Elem(rows[i], 1)) /\ Truthy(Elem(rows[i], 2))}

\* C26: _mapHeaderToEnglish gives 'date' for 'Día' and for 'DÃ­a' and returns a
\* label outside its table unchanged; a file whose header names the date column
\* in either spelling yields a transaction for each row with a date and a
\* description.
C26_BothSpellingsAreDate ==
    /\ (pc = "done" /\ op = "BbvaParser._mapHeaderToEnglish") =>
          /\ arg \in BbvaDateLabels => ret = "date"
          /\ arg \notin BbvaDateLabels \cup BbvaTableLabels => ret = arg
    /\ (pc = "done" /\ op = "BbvaParser(header).parse" /\ arg.label \in BbvaDateLabels) =>
          /\ ~ret.threw
          /\ Len(ret.value) = Cardinality(BbvaFullRows)

-----------------------------------------------------------------------------
(* A month that BanBajio's table does not hold *)

\* _formatDate of BanBajio returned for three parts whose month is not in the table
UnknownMonthFormatted ==
    /\ pc = "done"
    /\ op = "BanBajioParser._formatDate"
    /\ Len(Split(arg, "-")) = 3
    /\ \A k \in 1..12 : MonthNames[k] # Split(arg, "-")[2]

\* C27: BanBajio's _formatDate returns its input unchanged when the input has
\* three parts between dashes and the month part is none of the twelve
\* abbreviations.
C27_UnknownMonthUnchanged ==
    UnknownMonthFormatted => (~ret.threw /\ ret.value = arg)

-----------------------------------------------------------------------------
(* What ends the Santander data section *)

\* the turn of the loop of parse reads, inside the data section, the line at idx
ReadsInDataSection == pc = "scan" /\ idx <= Len(lines) /\ inDataSection

\* C28: inside the data section, a line that starts with the header literal and
\* a line that begins with the quoted 8-digit date token but does not give
\* nine columns are passed over, the loop going on to the next line with the
\* records as they are; a data line of nine columns adds its record; any other
\* line, blank or without the date token, ends the loop.
C28_MalformedLineKeepsSection ==
    [][ReadsInDataSection =>
          LET line == lines[idx]
              goesOn == pc' = "scan" /\ idx' = idx + 1 /\ inDataSection'
          IN IF StartsWith(line, SantanderHeader)
             THEN goesOn /\ records' = records
             ELSE IF line # "" /\ Santander_isDataLine(line)
             THEN /\ goesOn
                  /\ IF Len(Santander_columns(line)) = 9
                     THEN Len(records') = Len(records) + 1
                     ELSE records' = records
             ELSE pc' = "return" /\ records' = records]_vars

\* parse returned the transaction of a data line that follows, inside the
\* section, a line with the date token and fewer than nine columns
C28_Witness ==
    /\ SantanderParsed
    /\ Len(lines) = 3
    /\ StartsWith(lines[1], SantanderHeader)
    /\ Santander_isDataLine(lines[2])
    /\ Len(Santander_columns(lines[2])) # 9
    /\ Santander_isDataLine(lines[3])
    /\ Len(ret.value) = 1
    /\ ret.value[1].reference = "REF1"

-----------------------------------------------------------------------------
(* _parseDataLine on lines of nine tokens *)

SantanderLastTokenPool == {"NOMINA", "'NOMINA'", "", "''", "\"\"", " "}

SantanderDataLinePool ==
    {"'01032024','10:15','0001'," \o description \o "," \o debit \o ",0.00,239.50,"
        \o reference \o "," \o concept \o extra :
        description \in {"'DEPOSITO'", "COMISION", "'PAGO, TIENDA'"},
        debit \in {"10.00", "\"1,250.50\""},
        reference \in {"REF1", "", "'R,1'"},
        concept \in SantanderLastTokenPool,
        extra \in {"", ",X"}}

CallSantanderParseDataLine ==
    /\ pc = "idle"
    /\ \E line \in SantanderDataLinePool :
          MineDone("SantanderParser._parseDataLine(line)", line, Santander_parseDataLine(line))

NextDataLine == CallSantanderParseDataLine

SpecDataLine == InitIdle /\ [][NextDataLine]_vars

\* the commas of a line that stand outside every quoted stretch
CommasOutsideQuotes(line) == {k \in 1..Len(line) : At(line, k) = "," /\ ~InQuotes(line, k)}

\* C29: _parseDataLine returns a record for every line with exactly eight
\* commas outside quotes, the lines whose last token is empty or an empty
\* pair of quotes included.
C29_NineTokensGiveRecord ==
    (pc = "done" /\ op = "SantanderParser._parseDataLine(line)"
        /\ Cardinality(CommasOutsideQuotes(arg)) = 8) =>
        ret # NullRecord

====
